---- MODULE Spec2Model ----
(***************************************************************************)
(* A state-machine model of teco.py (DEC Standard TECO in Python).         *)
(*                                                                         *)
(* Characters are one-element strings; control characters have names       *)
(* ("ESC", "TAB", "C-A", "C-U", ...).  A command string, the buffer text,  *)
(* a register text and a file are sequences of characters.  Positions are  *)
(* 0-based as in the source (cmdpos, dot).                                 *)
(*                                                                         *)
(* One step of the model is one turn of the loop in command_level.run():   *)
(* nextcmd() followed by do(c), i.e. one command handler run to its end.   *)
(***************************************************************************)
EXTENDS Integers, Sequences, FiniteSets, TLC

VARIABLES
    teco,       \* class teco: flags, expression state, global registers, register stack
    buffer,     \* class buffer: text, dot, input and output slots
    levels,     \* stack of command_level objects; levels[1] is teco.interactive
    scopes,     \* the local register dictionaries the command levels are bound to
    files,      \* the host file system: file name -> content
    mode,       \* "prompt": mainloop waits for a command line; "run": a level is executing;
                \* "search": the level is in the loop of search
    preverror,  \* mainloop's preverror, as the code of the error ("" when none)
    linenum,    \* number of command lines mainloop has read
    reader,     \* teco_cmdstring: its locals while a command line is typed
    display,    \* the display thread in OnPaint, and the interpreter thread it runs beside
    searching   \* search: its locals while its loop runs

vars == <<teco, buffer, levels, scopes, files, mode, preverror, linenum, reader,
          display, searching>>

----------------------------------------------------------------------------
(* Characters *)

ESC   == "ESC"
TAB   == "TAB"
LF    == "LF"
CR    == "CR"
FF    == "FF"
CTRLA == "C-A"
CTRLC == "C-C"
CTRLN == "C-N"
CTRLS == "C-S"
CTRLT == "C-T"
CTRLU == "C-U"
CTRLX == "C-X"
CTRLQ == "C-Q"
CTRLR == "C-R"
CTRLV == "C-V"
CTRLW == "C-W"
CTRLCARET == "C-^"
CTRLE == "C-E"
CTRLD == "C-D"
CTRLO == "C-O"
BS    == "BS"
BEL   == "C-G"
DEL   == "DEL"
BSL   == "BSL"

LowerLetters == {"a","b","c","d","e","f","g","h","i","j","k","l","m",
                 "n","o","p","q","r","s","t","u","v","w","x","y","z"}
UpperLetters == {"A","B","C","D","E","F","G","H","I","J","K","L","M",
                 "N","O","P","Q","R","S","T","U","V","W","X","Y","Z"}
DigitChars   == {"0","1","2","3","4","5","6","7","8","9"}

UpperOf == [c \in LowerLetters |->
    CASE c = "a" -> "A" [] c = "b" -> "B" [] c = "c" -> "C" [] c = "d" -> "D"
      [] c = "e" -> "E" [] c = "f" -> "F" [] c = "g" -> "G" [] c = "h" -> "H"
      [] c = "i" -> "I" [] c = "j" -> "J" [] c = "k" -> "K" [] c = "l" -> "L"
      [] c = "m" -> "M" [] c = "n" -> "N" [] c = "o" -> "O" [] c = "p" -> "P"
      [] c = "q" -> "Q" [] c = "r" -> "R" [] c = "s" -> "S" [] c = "t" -> "T"
      [] c = "u" -> "U" [] c = "v" -> "V" [] c = "w" -> "W" [] c = "x" -> "X"
      [] c = "y" -> "Y" [] c = "z" -> "Z"]

\* str.lower () on one character
lower(c) == IF c \in UpperLetters
            THEN CHOOSE l \in LowerLetters : UpperOf[l] = c
            ELSE c

\* str.upper () on one character
upper(c) == IF c \in LowerLetters THEN UpperOf[c] ELSE c

isalnum(c) == c \in LowerLetters \cup UpperLetters \cup DigitChars

DigitVal(c) == CASE c = "0" -> 0 [] c = "1" -> 1 [] c = "2" -> 2 [] c = "3" -> 3
                 [] c = "4" -> 4 [] c = "5" -> 5 [] c = "6" -> 6 [] c = "7" -> 7
                 [] c = "8" -> 8 [] c = "9" -> 9

----------------------------------------------------------------------------
(* Python values *)

\* An optional integer: None is the empty tuple, n is <<n>>
None    == <<>>
Some(n) == <<n>>

Min(S) == CHOOSE x \in S : \A y \in S : x <= y
Max(S) == CHOOSE x \in S : \A y \in S : x >= y

\* s[a:b] of Python, with its clamping and its negative indices
SliceIdx(s, k) == IF k < 0 THEN Max({k + Len(s), 0}) ELSE Min({k, Len(s)})
Slice(s, a, b) == LET a1 == SliceIdx(s, a)
                      b1 == SliceIdx(s, b)
                  IN  IF a1 >= b1 THEN <<>> ELSE SubSeq(s, a1 + 1, b1)
SliceFrom(s, a) == Slice(s, a, Len(s))

\* s.index (x, from): the first position >= from holding x, or -1 (ValueError)
Index(s, x, from) ==
    LET cand == {e \in from .. (Len(s) - 1) : s[e + 1] = x}
    IN  IF cand = {} THEN -1 ELSE Min(cand)

\* s.rindex (x, 0, to): the last position < to holding x, or -1 (ValueError)
RIndex(s, x, to) ==
    LET cand == {e \in 0 .. (Min({to, Len(s)}) - 1) : s[e + 1] = x}
    IN  IF cand = {} THEN -1 ELSE Max(cand)

\* Bitwise operators on Python's unbounded two's complement integers
RECURSIVE BitAnd(_, _)
BitAnd(a, b) == IF a = 0 \/ b = 0 THEN 0
                ELSE IF a = -1 THEN b
                ELSE IF b = -1 THEN a
                ELSE (a % 2) * (b % 2) + 2 * BitAnd(a \div 2, b \div 2)

RECURSIVE BitOr(_, _)
BitOr(a, b) == IF a = 0 THEN b
               ELSE IF b = 0 THEN a
               ELSE IF a = -1 \/ b = -1 THEN -1
               ELSE (IF a % 2 = 1 \/ b % 2 = 1 THEN 1 ELSE 0)
                    + 2 * BitOr(a \div 2, b \div 2)

BitNot(a) == -a - 1

\* a // b of Python (floor division), b # 0
FloorDiv(a, b) == IF b > 0 THEN a \div b ELSE (-a) \div (-b)

\* A dictionary is a function with a finite domain
EmptyDict == <<>>
DictSet(d, k, v) == [x \in (DOMAIN d) \cup {k} |-> IF x = k THEN v ELSE d[x]]

----------------------------------------------------------------------------
(* The working state of one handler.  A handler is an operator from a      *)
(* working state to a working state: t is the teco object, b the buffer,   *)
(* lv the stack of command levels, sc the local register dictionaries, fs  *)
(* the files.  err is the TECO error raised ("" when none), exit the other *)
(* exception under way (ExitLevel, ExitExecution, SystemExit), and ret,    *)
(* str, chr, reg, ok carry the value a helper returns to its caller.  keys *)
(* holds the characters typed at the terminal while the handler runs; a    *)
(* handler that reads a character when none is left is blocked.            *)

Work == [t |-> teco, b |-> buffer, lv |-> levels, sc |-> scopes, fs |-> files,
         err |-> "", exit |-> "", ret |-> None, str |-> <<>>, chr |-> "",
         reg |-> <<>>, ok |-> FALSE, keys |-> <<>>]

Failed(M) == M.err # "" \/ M.exit # ""

\* F applied to the value of v
Bind(v, F(_)) == CHOOSE r \in {F(x) : x \in {v}} : TRUE

\* F applied to M unless an exception is already under way
Then(M, F(_)) == Bind(M, LAMBDA x : IF Failed(x) THEN x ELSE F(x))

Top(M)    == Len(M.lv)
Cur(M)    == M.lv[Len(M.lv)]
command(M) == M.lv[Len(M.lv)].command
cmdpos(M)  == M.lv[Len(M.lv)].cmdpos
iterstack(M) == M.lv[Len(M.lv)].iterstack
SetCmdpos(M, p) == [M EXCEPT !.lv[Len(M.lv)].cmdpos = p]
SetIterstack(M, s) == [M EXCEPT !.lv[Len(M.lv)].iterstack = s]

----------------------------------------------------------------------------
(* class teco: expression state *)

clearmods(M) == [M EXCEPT !.t.colons = 0, !.t.atmod = FALSE]

clearargs(M) == [clearmods(M) EXCEPT !.t.opstack = <<>>, !.t.arg = None,
                                     !.t.arg2 = None, !.t.num = None, !.t.op = ""]

\* an error that leaves the expression state as the failing command left it
RaiseKeeping(M, e) == [M EXCEPT !.err = e]

\* raise E (self.teco): err.__init__ clears the expression state
Raise(M, e) == [clearargs(M) EXCEPT !.err = e]

ApplyOp(op, a, n) == CASE op = "+" -> a + n
                       [] op = "-" -> a - n
                       [] op = "*" -> a * n
                       [] op = "/" -> FloorDiv(a, n)
                       [] op = "&" -> BitAnd(a, n)
                       [] op = "#" -> BitOr(a, n)

doop(M, c) ==
    IF M.t.op # ""
    THEN LET a == IF M.t.op \in {"+", "-"} /\ M.t.arg = None THEN Some(0) ELSE M.t.arg
         IN  IF M.t.num = None THEN Raise(M, "ILL")
             ELSE IF M.t.op = "/" /\ M.t.num[1] = 0 THEN Raise(M, "ILL")
             ELSE [M EXCEPT !.t.arg = Some(ApplyOp(M.t.op, a[1], M.t.num[1]))]
    ELSE [M EXCEPT !.t.arg = M.t.num]

getterm(M, c) ==
    Then(doop(M, c), LAMBDA M1 :
        [M1 EXCEPT !.ret = M1.t.arg, !.t.num = None, !.t.op = "", !.t.arg = None])

OnlySign(M) == M.t.op \in {"+", "-"} /\ M.t.num = None /\ M.t.arg = None

teco_getarg(M, c) ==
    IF M.t.opstack # <<>> THEN Raise(M, "MRP")
    ELSE getterm(IF OnlySign(M) THEN [M EXCEPT !.t.num = Some(1)] ELSE M, c)

getoptarg(M, c) ==
    LET M1 == IF OnlySign(M) THEN [M EXCEPT !.t.num = Some(1)] ELSE M
    IN  IF M1.t.num = None THEN [M1 EXCEPT !.ret = None] ELSE teco_getarg(M1, c)

setval(M, val) == clearmods([M EXCEPT !.t.num = Some(val)])

leftparen(M) == [M EXCEPT !.t.opstack = Append(M.t.opstack, [arg |-> M.t.arg, op |-> M.t.op]),
                          !.t.arg = None, !.t.op = ""]

rightparen(M) ==
    IF M.t.opstack # <<>>
    THEN LET M1 == getterm(M, ")")
         IN  IF M1.err # "" THEN [M1 EXCEPT !.err = "NAP"]
             ELSE LET e == M1.t.opstack[Len(M1.t.opstack)]
                  IN  [M1 EXCEPT !.t.num = M1.ret, !.t.arg = e.arg, !.t.op = e.op,
                                 !.t.opstack = SubSeq(M1.t.opstack, 1, Len(M1.t.opstack) - 1)]
    ELSE Raise(M, "MLP")

operator(M, c) ==
    IF M.t.num = None
    THEN IF c \in {"+", "-"} /\ M.t.arg = None THEN [M EXCEPT !.t.op = c]
         ELSE Raise(M, "ILL")
    ELSE Then(doop(M, c), LAMBDA M1 : [M1 EXCEPT !.t.num = None, !.t.op = c])

digit(M, c) ==
    LET n0 == IF M.t.num = None THEN 0 ELSE M.t.num[1]
        n  == DigitVal(c)
    IN  IF n >= M.t.radix THEN Raise(M, "ILN")
        ELSE [M EXCEPT !.t.num = Some(n0 * M.t.radix + n)]

\* command_level.getarg (c): no default, the expression state is kept
getarg(M, c) == teco_getarg(M, c)

\* command_level.getarg (c, n): a number as the default
getargD(M, c, default) ==
    Then(teco_getarg(M, c), LAMBDA M1 :
        LET M2 == clearargs(M1)
        IN  IF M1.ret = None THEN [M2 EXCEPT !.ret = Some(default)] ELSE M2)

\* command_level.getarg (c, E): an error class as the default
getargE(M, c, default) ==
    Then(teco_getarg(M, c), LAMBDA M1 :
        IF M1.ret = None THEN Raise(M1, default) ELSE clearargs(M1))

colon(M) == M.t.colons # 0

----------------------------------------------------------------------------
(* command_level: the command string *)

peeknextcmd(M) == IF cmdpos(M) < Len(command(M)) /\ cmdpos(M) >= 0
                  THEN command(M)[cmdpos(M) + 1] ELSE ""

nextcmd(M) ==
    IF peeknextcmd(M) = "" THEN Raise(M, "UTC")
    ELSE [SetCmdpos(M, cmdpos(M) + 1) EXCEPT !.chr = peeknextcmd(M)]

StrargFrom(M, c, term) ==
    LET s == cmdpos(M)
        e == Index(command(M), term, s)
    IN  IF e < 0 THEN Raise(M, "UTC")
        ELSE [SetCmdpos(M, e + 1) EXCEPT !.str = Slice(command(M), s, e)]

strarg(M, c, term) ==
    IF M.t.atmod
    THEN Then(nextcmd(M), LAMBDA M1 : StrargFrom([M1 EXCEPT !.t.atmod = FALSE], c, M1.chr))
    ELSE StrargFrom(M, c, term)

\* the pair of strings is left in M.str
strargs(M, c) ==
    LET term == IF M.t.atmod THEN peeknextcmd(M) ELSE ESC
    IN  Then(strarg(M, c, ESC), LAMBDA M1 :
            LET s1 == M1.str
            IN  Then(strarg(M1, c, term), LAMBDA M2 :
                    [M2 EXCEPT !.str = <<s1, M2.str>>]))

makecontrol(M, c) ==
    IF c \in UpperLetters \cup LowerLetters \cup {"@", "[", "]", "^", "_"}
    THEN [M EXCEPT !.chr = CASE lower(c) = "a" -> CTRLA
                             [] lower(c) = "c" -> CTRLC
                             [] lower(c) = "d" -> CTRLD
                             [] lower(c) = "e" -> CTRLE
                             [] lower(c) = "i" -> TAB
                             [] lower(c) = "j" -> LF
                             [] lower(c) = "l" -> FF
                             [] lower(c) = "m" -> CR
                             [] lower(c) = "n" -> CTRLN
                             [] lower(c) = "o" -> CTRLO
                             [] lower(c) = "q" -> CTRLQ
                             [] lower(c) = "r" -> CTRLR
                             [] lower(c) = "s" -> CTRLS
                             [] lower(c) = "t" -> CTRLT
                             [] lower(c) = "u" -> CTRLU
                             [] lower(c) = "v" -> CTRLV
                             [] lower(c) = "w" -> CTRLW
                             [] lower(c) = "x" -> CTRLX
                             [] c = "[" -> ESC
                             [] c = "^" -> CTRLCARET
                             [] OTHER -> "C-?"]
    ELSE Raise(M, "IUC")

----------------------------------------------------------------------------
(* class inputstream, class outputstream *)

\* s.replace (lf, crlf)
RECURSIVE lf2crlf(_)
lf2crlf(s) == IF s = <<>> THEN <<>>
              ELSE IF Head(s) = LF THEN <<CR, LF>> \o lf2crlf(Tail(s))
              ELSE <<Head(s)>> \o lf2crlf(Tail(s))

\* s.replace (crlf, lf)
RECURSIVE crlf2lf(_)
crlf2lf(s) == IF s = <<>> THEN <<>>
              ELSE IF Len(s) >= 2 /\ s[1] = CR /\ s[2] = LF THEN <<LF>> \o crlf2lf(Tail(Tail(s)))
              ELSE <<Head(s)>> \o crlf2lf(Tail(s))

\* s.split (ff): the pages of a file
RECURSIVE split(_)
split(s) == LET e == Index(s, FF, 0)
            IN  IF e < 0 THEN <<s>>
                ELSE <<Slice(s, 0, e)>> \o split(SliceFrom(s, e + 1))

\* infile.read () of a file opened in text mode: the line ends CR LF and CR
\* of the file are read as LF
RECURSIVE TextRead(_)
TextRead(s) == IF s = <<>> THEN <<>>
               ELSE IF Len(s) >= 2 /\ s[1] = CR /\ s[2] = LF THEN <<LF>> \o TextRead(Tail(Tail(s)))
               ELSE IF Head(s) = CR THEN <<LF>> \o TextRead(Tail(s))
               ELSE <<Head(s)>> \o TextRead(Tail(s))

\* inputs[k] is None (exists = FALSE) or an inputstream object
NoInput == [exists |-> FALSE, pages |-> <<>>, eoflag |-> -1, ffflag |-> 0,
            infile |-> FALSE, infn |-> <<>>]
inputstream_init == [NoInput EXCEPT !.exists = TRUE]

\* outputs[k] is None (exists = FALSE) or an outputstream object; outfile is
\* the open temporary file, data what has been written to it
NoOutput == [exists |-> FALSE, outfile |-> FALSE, data |-> <<>>, outfn |-> <<>>]
outputstream_init == [NoOutput EXCEPT !.exists = TRUE]

istream(M) == M.b.istream + 1
ostream(M) == M.b.ostream + 1
infile(M)  == M.b.inputs[M.b.istream + 1]
outfile(M) == M.b.outputs[M.b.ostream + 1]

\* inputstream.open, on the stream of the current slot
inputstream_open(M, fn, col) ==
    IF fn \notin DOMAIN M.fs
    THEN IF col THEN [M EXCEPT !.ret = Some(0)] ELSE Raise(M, "FNF")
    ELSE [M EXCEPT !.t.lastfilename = fn,
                   !.b.inputs[istream(M)].pages = split(TextRead(M.fs[fn])),
                   !.b.inputs[istream(M)].infile = TRUE,
                   !.b.inputs[istream(M)].infn = fn,
                   !.b.inputs[istream(M)].eoflag = 0,
                   !.ret = Some(-1)]

\* a readpage that takes every page it reads for the last one
readpageLast(M) ==
    LET in == infile(M)
    IN  [M EXCEPT !.str = IF in.pages # <<>> THEN lf2crlf(Head(in.pages)) ELSE <<>>,
                  !.ret = Some(IF in.pages # <<>> THEN -1 ELSE 0),
                  !.b.inputs[istream(M)].pages = IF in.pages # <<>> THEN Tail(in.pages) ELSE <<>>,
                  !.b.inputs[istream(M)].ffflag = 0,
                  !.b.inputs[istream(M)].eoflag = -1]

\* inputstream.readpage, on the stream of the current slot: the page is left
\* in M.str and the result in M.ret
readpage(M) ==
    LET in == infile(M)
    IN  IF in.pages # <<>>
        THEN LET rest == Tail(in.pages)
             IN  [M EXCEPT !.str = lf2crlf(Head(in.pages)),
                           !.ret = Some(-1),
                           !.b.inputs[istream(M)].pages = rest,
                           !.b.inputs[istream(M)].ffflag = IF Len(rest) # 0 THEN -1 ELSE 0,
                           !.b.inputs[istream(M)].eoflag = IF Len(rest) # 0 THEN 0 ELSE -1]
        ELSE [M EXCEPT !.str = <<>>, !.ret = Some(0),
                       !.b.inputs[istream(M)].ffflag = 0,
                       !.b.inputs[istream(M)].eoflag = -1]

\* outputstream.open, on the stream of the current slot
outputstream_open(M, fn, col) ==
    IF outfile(M).outfile THEN Raise(M, "OFO")
    ELSE [M EXCEPT !.b.outputs[ostream(M)].outfile = TRUE,
                   !.b.outputs[ostream(M)].data = <<>>,
                   !.b.outputs[ostream(M)].outfn = fn,
                   !.t.lastfilename = fn,
                   !.ret = Some(-1)]

----------------------------------------------------------------------------
(* class buffer *)

end(M) == Len(M.b.text)

\* an insert that does not record the length of the text
insertUnrecorded(M, text) ==
    [M EXCEPT !.b.text = Slice(M.b.text, 0, M.b.dot) \o text \o SliceFrom(M.b.text, M.b.dot),
              !.b.dot = M.b.dot + Len(text)]

\* buffer.insert
insert(M, text) ==
    [M EXCEPT !.b.text = Slice(M.b.text, 0, M.b.dot) \o text \o SliceFrom(M.b.text, M.b.dot),
              !.b.dot = M.b.dot + Len(text),
              !.t.laststringlen = -Len(text)]

delete(M, len) ==
    [M EXCEPT !.b.text = Slice(M.b.text, 0, M.b.dot) \o SliceFrom(M.b.text, M.b.dot + len)]

goto(M, pos) ==
    [M EXCEPT !.b.dot = IF pos < 0 THEN 0
                        ELSE IF pos > Len(M.b.text) THEN Len(M.b.text)
                        ELSE pos]

_ffflag(M) == IF infile(M).exists THEN infile(M).ffflag ELSE 0
_eoflag(M) == IF infile(M).exists THEN infile(M).eoflag ELSE -1

RECURSIVE LineFwd(_, _, _)
LineFwd(text, pos, linecnt) ==
    IF linecnt <= 0 THEN pos
    ELSE LET e == Index(text, LF, pos)
         IN  IF e < 0 THEN Len(text) ELSE LineFwd(text, e + 1, linecnt - 1)

RECURSIVE LineBack(_, _, _)
LineBack(text, pos, linecnt) ==
    IF linecnt > 0 THEN pos + 1
    ELSE LET e == RIndex(text, LF, pos)
         IN  IF e < 0 THEN 0 ELSE LineBack(text, e, linecnt + 1)

line(M, linecnt) == IF linecnt > 0 THEN LineFwd(M.b.text, M.b.dot, linecnt)
                    ELSE LineBack(M.b.text, M.b.dot, linecnt)

append(M) ==
    IF ~infile(M).exists THEN Raise(M, "NFI")
    ELSE LET M1 == readpage(M)
         IN  [M1 EXCEPT !.b.text = M1.b.text \o M1.str]

\* a yank that is refused whether or not an output file is open
yankAnyOutput(M, protect) ==
    IF protect /\ M.b.text # <<>> THEN Raise(M, "YCA")
    ELSE Then(append([M EXCEPT !.b.text = <<>>]), LAMBDA M1 :
            LET r == M1.ret IN [goto(M1, 0) EXCEPT !.ret = r])

\* buffer.yank
yank(M, protect) ==
    IF protect /\ outfile(M).exists /\ M.b.text # <<>> THEN Raise(M, "YCA")
    ELSE Then(append([M EXCEPT !.b.text = <<>>]), LAMBDA M1 :
            LET r == M1.ret IN [goto(M1, 0) EXCEPT !.ret = r])

\* part is None, or the pair <<start, end>>
writepage(M, part) ==
    IF ~outfile(M).exists THEN Raise(M, "NFO")
    ELSE LET out == IF part # None
                    THEN crlf2lf(Slice(M.b.text, part[1], part[2]))
                    ELSE crlf2lf(M.b.text)
         IN  [M EXCEPT !.b.outputs[ostream(M)].data = outfile(M).data \o out]

page(M) ==
    LET hadff == infile(M).exists /\ infile(M).ffflag # 0
    IN  Then(writepage(M, None), LAMBDA M1 :
            yank(IF hadff
                 THEN [M1 EXCEPT !.b.outputs[ostream(M1)].data = outfile(M1).data \o <<FF>>]
                 ELSE M1, FALSE))

\* the name of the backup file: infn + '~'
BackupName(fn) == fn \o <<"~">>

ef(M) ==
    LET in  == infile(M)
        out == outfile(M)
        M1  == [M EXCEPT !.b.inputs[istream(M)] = NoInput]
    IN  IF out.exists
        THEN LET fs1 == IF M.b.ebflag
                        THEN [n \in (DOMAIN M.fs \cup {BackupName(in.infn)}) \ {in.infn} |->
                                 IF n = BackupName(in.infn) THEN M.fs[in.infn] ELSE M.fs[n]]
                        ELSE M.fs
             IN  [M1 EXCEPT !.b.ebflag = FALSE,
                            !.b.outputs[ostream(M)] = NoOutput,
                            !.fs = DictSet(fs1, out.outfn, out.data)]
        ELSE M1

RECURSIVE PageAll(_)
PageAll(M) == LET M1 == page(M)
              IN  IF Failed(M1) THEN M1
                  ELSE IF M1.ret[1] < 0 THEN PageAll(M1) ELSE M1

ec(M) ==
    IF outfile(M).exists
    THEN IF infile(M).exists
         THEN Then(PageAll(M), LAMBDA M1 : ef(M1))
         ELSE Then(writepage(M, None), LAMBDA M1 : ef([M1 EXCEPT !.b.text = <<>>]))
    ELSE IF end(M) # 0 THEN Raise(M, "NFO")
    ELSE M

ek(M) ==
    IF outfile(M).exists
    THEN [M EXCEPT !.b.outputs[ostream(M)] = NoOutput, !.b.ebflag = FALSE]
    ELSE M

er(M, fn, col) ==
    IF Len(fn) = 0 THEN [M EXCEPT !.b.istream = 0, !.ret = Some(1)]
    ELSE inputstream_open(
            IF ~infile(M).exists THEN [M EXCEPT !.b.inputs[istream(M)] = inputstream_init]
            ELSE M, fn, col)

ew(M, fn, col) ==
    IF Len(fn) = 0 THEN [M EXCEPT !.b.ostream = 0, !.ret = Some(1)]
    ELSE outputstream_open(
            IF ~outfile(M).exists THEN [M EXCEPT !.b.outputs[ostream(M)] = outputstream_init]
            ELSE M, fn, col)

eb(M, fn, col) ==
    IF outfile(M).exists THEN Raise(M, "OFO")
    ELSE Then(er(M, fn, col), LAMBDA M1 :
            IF M1.ret = Some(-1)
            THEN Then(ew(M1, fn, col), LAMBDA M2 :
                    IF M2.ret = Some(-1) THEN [M2 EXCEPT !.b.ebflag = TRUE] ELSE M2)
            ELSE M1)

----------------------------------------------------------------------------
(* Q-registers.  A register is [num, text].  The key of a register in its  *)
(* dictionary is the character that names it; a name that starts with a    *)
(* dot selects the local dictionary of the command level.                  *)

qreg_init == [num |-> 0, text |-> <<>>]

\* the name is left in M.str: <<c>> or <<".", c>>
qregname(M) ==
    Then(nextcmd(M), LAMBDA M1 :
        IF M1.chr = "."
        THEN Then(nextcmd(M1), LAMBDA M2 : [M2 EXCEPT !.str = <<".", lower(M2.chr)>>])
        ELSE [M1 EXCEPT !.str = <<lower(M1.chr)>>])

\* the dictionary a name refers to: the global one ("g") or the one of the
\* current level ("l"); M.reg is left as the reference [dict, key]
qdict(M, c) ==
    IF Len(c) = 1 /\ isalnum(c[1]) THEN [M EXCEPT !.reg = [dict |-> "g", key |-> c[1]]]
    ELSE IF Len(c) = 2 /\ c[1] = "." /\ isalnum(c[2])
    THEN [M EXCEPT !.reg = [dict |-> "l", key |-> c[2]]]
    ELSE Raise(M, "IQN")

DictOf(M, r) == IF r.dict = "g" THEN M.t.qregs ELSE M.sc[Cur(M).qregs]
SetDictOf(M, r, d) == IF r.dict = "g" THEN [M EXCEPT !.t.qregs = d]
                      ELSE [M EXCEPT !.sc[Cur(M).qregs] = d]

\* the register a reference denotes, and its assignment
RegVal(M, r) == DictOf(M, r)[r.key]
RegSet(M, r, q) == SetDictOf(M, r, DictSet(DictOf(M, r), r.key, q))

\* qreg (c): the register named c, created when it does not exist
qreg_named(M, c) ==
    Then(qdict(M, c), LAMBDA M1 :
        IF M1.reg.key \in DOMAIN DictOf(M1, M1.reg) THEN M1
        ELSE RegSet(M1, M1.reg, qreg_init))

\* qreg (): the register named by the command string
qreg(M) == Then(qregname(M), LAMBDA M1 : qreg_named(M1, M1.str))

\* qregstr (c): the text of register c, of the last file name or search string
qregstr_named(M, c) ==
    IF c = <<"*">> THEN [M EXCEPT !.str = M.t.lastfilename]
    ELSE IF c = <<"_">> THEN [M EXCEPT !.str = M.t.lastsearch]
    ELSE Then(qreg_named(M, c), LAMBDA M1 : [M1 EXCEPT !.str = RegVal(M1, M1.reg).text])

\* qregstr (): the same, named by the command string
qregstr(M) ==
    IF peeknextcmd(M) \in {"*", "_"}
    THEN Then(nextcmd(M), LAMBDA M1 : qregstr_named(M1, <<M1.chr>>))
    ELSE Then(qreg(M), LAMBDA M1 : [M1 EXCEPT !.str = RegVal(M1, M1.reg).text])

setqreg(M, q) ==
    Then(qregname(M), LAMBDA M1 :
        Then(qdict(M1, M1.str), LAMBDA M2 : RegSet(M2, M2.reg, q)))

----------------------------------------------------------------------------
(* The scanners that pass over commands without executing them.  basepat   *)
(* is one repetition of the group of the regular expression of the same    *)
(* name: the alternatives are tried in the order they are written, the     *)
(* first that matches at position p wins, and its end is the result (-1    *)
(* when no alternative matches, which ends the scan).  Positions are       *)
(* Python's: 0 is the first character.  The match ignores case.            *)

iterset == {"<", ">"}
condset == {"\"", "|", "'", "<", ">"}
tagset  == {"!", "<", ">"}

termset(pat) == CASE pat = "iter" -> iterset [] pat = "cond" -> condset [] pat = "tag" -> tagset

\* the character at position p, "" beyond the end
At(cmd, p) == IF p >= 0 /\ p < Len(cmd) THEN cmd[p + 1] ELSE ""

\* .*?d from position p: the end of the first d at or after p, -1 if none
RECURSIVE LazyTo(_, _, _)
LazyTo(cmd, p, d) ==
    IF p < 0 \/ p >= Len(cmd) THEN -1
    ELSE IF lower(cmd[p + 1]) = lower(d) THEN p + 1
    ELSE LazyTo(cmd, p + 1, d)

\* (.).*?\1 from position p: a delimiter and the text up to its next occurrence
Delimited(cmd, p) == IF At(cmd, p) = "" THEN -1 ELSE LazyTo(cmd, p + 1, At(cmd, p))

\* (.).*?\1.*?\1 from position p
Delimited2(cmd, p) ==
    IF At(cmd, p) = "" THEN -1
    ELSE Bind(LazyTo(cmd, p + 1, At(cmd, p)), LAMBDA e :
             IF e < 0 THEN -1 ELSE LazyTo(cmd, e, At(cmd, p)))

\* \.?. from position p, then rest(_) from where the name ends; the optional
\* dot is taken first and given up when the rest does not match
AfterName(cmd, p, rest(_)) ==
    Bind(IF At(cmd, p) = "." /\ At(cmd, p + 1) # "" THEN rest(p + 2) ELSE -1, LAMBDA long :
        IF long >= 0 THEN long
        ELSE IF At(cmd, p) # "" THEN rest(p + 1) ELSE -1)

\* an alternative a, or the single character . that follows it in the group
OrAny(cmd, p, a) ==
    Bind(a, LAMBDA e : IF e >= 0 THEN e ELSE IF At(cmd, p) # "" THEN p + 1 ELSE -1)

\* the commands with string arguments, @ modified: p is just after @ and colons
AtForm(cmd, p, pat) ==
    Bind(<<lower(At(cmd, p)), lower(At(cmd, p + 1))>>, LAMBDA cc :
    LET c  == cc[1]
        c2 == cc[2]
    IN  CASE c = "f" ->
               OrAny(cmd, p + 1,
                     IF c2 \in {"c", "n", "s", "_"} THEN Delimited2(cmd, p + 2)
                     ELSE IF c2 \in {"b", "r"} THEN Delimited(cmd, p + 2) ELSE -1)
          [] c = "e" ->
               OrAny(cmd, p + 1,
                     IF c2 \in {"b", "g", "i", "n", "r", "w", "_"}
                     THEN Delimited(cmd, p + 2) ELSE -1)
          [] c = "^" ->
               OrAny(cmd, p + 1,
                     IF c2 = "a" THEN Delimited(cmd, p + 2)
                     ELSE IF c2 = "u"
                     THEN AfterName(cmd, p + 2, LAMBDA q : Delimited(cmd, q))
                     ELSE -1)
          [] c \in {CTRLA, "i", "n", "o", "s", "_"} \/ (c = "!" /\ pat # "tag") ->
               Delimited(cmd, p + 1)
          [] c = CTRLU ->
               AfterName(cmd, p + 1, LAMBDA q : Delimited(cmd, q))
          [] OTHER -> -1)

RECURSIVE SkipColons(_, _)
SkipColons(cmd, p) == IF At(cmd, p) = ":" THEN SkipColons(cmd, p + 1) ELSE p

\* the commands with string arguments, no @, and the other commands
PlainForm(cmd, p, pat) ==
    Bind(<<lower(At(cmd, p)), lower(At(cmd, p + 1))>>, LAMBDA cc :
    LET c  == cc[1]
        c2 == cc[2]
    IN  Bind(CASE c = "f" ->
                     OrAny(cmd, p + 1,
                           IF c2 \in {"c", "n", "s", "_"}
                           THEN Bind(LazyTo(cmd, p + 2, ESC), LAMBDA e :
                                    IF e < 0 THEN -1 ELSE LazyTo(cmd, e, ESC))
                           ELSE IF c2 \in {"b", "r"} THEN LazyTo(cmd, p + 2, ESC) ELSE -1)
                [] c = "e" ->
                     OrAny(cmd, p + 1,
                           IF c2 \in {"b", "g", "i", "n", "r", "w", "_"}
                           THEN LazyTo(cmd, p + 2, ESC) ELSE -1)
                [] c = "^" ->
                     OrAny(cmd, p + 1,
                           IF c2 = "a" THEN LazyTo(cmd, p + 2, CTRLA)
                           ELSE IF c2 = "u"
                           THEN AfterName(cmd, p + 2, LAMBDA q : LazyTo(cmd, q, CTRLU))
                           ELSE IF c2 = "^" /\ At(cmd, p + 2) # "" THEN p + 3
                           ELSE -1)
                [] c \in {"i", "n", "o", "s", "_"} -> LazyTo(cmd, p + 1, ESC)
                [] c = CTRLA -> LazyTo(cmd, p + 1, CTRLA)
                [] c = "!" /\ pat \in {"iter", "cond"} -> LazyTo(cmd, p + 1, "!")
                [] c = "\"" /\ pat \in {"iter", "tag"} ->
                     IF At(cmd, p + 1) # "" THEN p + 2 ELSE -1
                [] c = CTRLU ->
                     AfterName(cmd, p + 1, LAMBDA q : LazyTo(cmd, q, ESC))
                [] c = CTRLCARET -> IF At(cmd, p + 1) # "" THEN p + 2 ELSE -1
                [] c \in {"]", "[", "%", "g", "m", "q", "u", "x"} ->
                     AfterName(cmd, p + 1, LAMBDA q : q)
                [] OTHER -> -1,
             LAMBDA a :
                IF a >= 0 THEN a
                ELSE IF At(cmd, p) # "" /\ At(cmd, p) \notin termset(pat) THEN p + 1
                ELSE -1))

basepat(cmd, p, pat) ==
    Bind(IF At(cmd, p) = "@" THEN AtForm(cmd, SkipColons(cmd, p + 1), pat) ELSE -1,
         LAMBDA a : IF a >= 0 THEN a ELSE PlainForm(cmd, p, pat))

\* pat.match (command, pos).end (): the group repeated as often as it matches
RECURSIVE MatchEnd(_, _, _)
MatchEnd(cmd, p, pat) ==
    Bind(basepat(cmd, p, pat), LAMBDA e : IF e < 0 THEN p ELSE MatchEnd(cmd, e, pat))

\* the character after the match is left in M.chr, "" for None
skip(M, pat) ==
    Bind(MatchEnd(command(M), Min({cmdpos(M), Len(command(M))}), pat), LAMBDA e :
        [SetCmdpos(M, e + 1) EXCEPT !.chr = At(command(M), e)])

RECURSIVE SkipIterLoop(_, _)
SkipIterLoop(M, level) ==
    IF level > 0
    THEN Bind(skip(M, "iter"), LAMBDA M1 :
             IF M1.chr = "" THEN Raise(M1, "UTC")
             ELSE SkipIterLoop(M1, IF M1.chr = "<" THEN level + 1 ELSE level - 1))
    ELSE M

skipiter(M) == SkipIterLoop(M, 1)

\* skipcond (c): c is the set of characters the scan is to stop at.  A nested
\* conditional is skipped, a nested iteration start is stacked with a count
\* of one, an iteration end pops the iteration stack
RECURSIVE skipcond(_, _)
skipcond(M, c) ==
    Bind(skip(M, "cond"), LAMBDA M1 :
        IF M1.chr = "" THEN Raise(M1, "MAP")
        ELSE IF M1.chr \in c THEN M1
        ELSE IF M1.chr = "<"
        THEN skipcond(SetIterstack(M1, Append(iterstack(M1),
                                              [start |-> cmdpos(M1), count |-> 1])), c)
        ELSE IF M1.chr = "\""
        THEN Then(skipcond(SetCmdpos(M1, cmdpos(M1) + 1), {"'"}), LAMBDA M2 :
                 skipcond(M2, c))
        ELSE IF M1.chr = ">"
        THEN IF iterstack(M1) = <<>> THEN Raise(M1, "BNI")
             ELSE skipcond(SetIterstack(M1, SubSeq(iterstack(M1), 1, Len(iterstack(M1)) - 1)), c)
        ELSE skipcond(M1, c))

\* iterations: an entry of the iteration stack is [start, count]
iter(M, count) == [start |-> cmdpos(M), count |-> count]

PopIter(M) == SetIterstack(M, SubSeq(iterstack(M), 1, Len(iterstack(M)) - 1))

\* iter.again of the innermost iteration (atend = True, delta = 1)
again(M) ==
    LET it == iterstack(M)[Len(iterstack(M))]
        M1 == [M EXCEPT !.lv[Len(M.lv)].iterstack[Len(iterstack(M))].count = it.count - 1]
    IN  IF it.count # 0 /\ it.count - 1 = 0 THEN PopIter(M1)
        ELSE clearargs(SetCmdpos(IF it.count # 0 THEN M1 ELSE M, it.start))

----------------------------------------------------------------------------
(* Strings: the string builder and the search pattern.  Of the string      *)
(* build constructs the model has ^Qx, ^Rx, ^EQq, ^Vx, ^Wx and ^x; of the  *)
(* match constructs it has ^X and ^EX (any character).  Every other        *)
(* character of a search string stands for itself.                         *)

\* the length of the uparrow or control form of a construct at position k,
\* 0 when there is none: up are the letters after the uparrow, ctl the
\* control characters
PrefixLen(s, k, up, ctl, upok) ==
    IF upok /\ At(s, k) = "^" /\ lower(At(s, k + 1)) \in up THEN 2
    ELSE IF At(s, k) \in ctl THEN 1 ELSE 0

\* _bldpat.sub (_strbuildrep, s) from position k on; acc is the text built
RECURSIVE StrBuildFrom(_, _, _, _)
StrBuildFrom(M, s, k, acc) ==
    LET upok == BitAnd(M.t.ed, 1) = 0
        pq == PrefixLen(s, k, {"q", "r"}, {CTRLQ, CTRLR}, upok)
        pe == PrefixLen(s, k, {"e"}, {CTRLE}, upok)
        pv == PrefixLen(s, k, {"v"}, {CTRLV}, upok)
        pw == PrefixLen(s, k, {"w"}, {CTRLW}, upok)
        nm == IF At(s, k + pe + 1) = "." /\ At(s, k + pe + 2) # ""
              THEN <<".", lower(At(s, k + pe + 2))>>
              ELSE <<lower(At(s, k + pe + 1))>>
    IN  IF Failed(M) THEN M
        ELSE IF k >= Len(s) THEN [M EXCEPT !.str = acc]
        ELSE IF pq > 0 /\ At(s, k + pq) # ""
        THEN StrBuildFrom(M, s, k + pq + 1, Append(acc, At(s, k + pq)))
        ELSE IF pe > 0 /\ lower(At(s, k + pe)) = "q" /\ At(s, k + pe + 1) # ""
        THEN LET M1 == qregstr_named(M, nm)
             IN  StrBuildFrom(M1, s, k + pe + 1 + Len(nm), acc \o M1.str)
        ELSE IF pv > 0 /\ At(s, k + pv) # ""
        THEN StrBuildFrom(M, s, k + pv + 1, Append(acc, lower(At(s, k + pv))))
        ELSE IF pw > 0 /\ At(s, k + pw) # ""
        THEN StrBuildFrom(M, s, k + pw + 1, Append(acc, upper(At(s, k + pw))))
        ELSE IF upok /\ At(s, k) = "^" /\ At(s, k + 1) # ""
        THEN LET M1 == makecontrol(M, At(s, k + 1))
             IN  StrBuildFrom(M1, s, k + 2, Append(acc, M1.chr))
        ELSE StrBuildFrom(M, s, k + 1, Append(acc, At(s, k)))

\* the built string is left in M.str
strbuild(M, s) == StrBuildFrom(M, s, 0, <<>>)

\* the compiled pattern: a sequence of elements, each one character or any
RECURSIVE str2re(_)
str2re(s) ==
    IF s = <<>> THEN <<>>
    ELSE IF s[1] = CTRLX THEN <<[any |-> TRUE, ch |-> ""]>> \o str2re(Tail(s))
    ELSE IF s[1] = CTRLE /\ Len(s) > 1 /\ lower(s[2]) = "x"
    THEN <<[any |-> TRUE, ch |-> ""]>> \o str2re(Tail(Tail(s)))
    ELSE <<[any |-> FALSE, ch |-> s[1]]>> \o str2re(Tail(s))

\* the pattern matches the text at position p; icase is re.IGNORECASE
MatchAt(re, buf, p, icase) ==
    /\ p >= 0
    /\ p + Len(re) <= Len(buf)
    /\ \A k \in 1..Len(re) :
          \/ re[k].any
          \/ IF icase THEN lower(re[k].ch) = lower(buf[p + k]) ELSE re[k].ch = buf[p + k]

\* re.match (buf, pos): the start of the match, or None
re_match(re, buf, pos, icase) ==
    LET p == Min({pos, Len(buf)})
    IN  IF MatchAt(re, buf, p, icase) THEN Some(p) ELSE None

\* re.search (buf, pos): the start of the leftmost match, or None
re_search(re, buf, pos, icase) ==
    LET P == {p \in Min({pos, Len(buf)})..Len(buf) : MatchAt(re, buf, p, icase)}
    IN  IF P = {} THEN None ELSE Some(Min(P))

----------------------------------------------------------------------------
(* Iteration exit and search *)

\* a variant of the ; command with the test of the sign reversed
ExitOnSuccess(M, c) ==
    LET col == colon(M)
    IN  Then(getargE(M, c, "NAS"), LAMBDA M1 :
            LET n == M1.ret[1]
            IN  IF iterstack(M1) = <<>> THEN Raise(M1, "SNI")
                ELSE IF (~col /\ n < 0) \/ (col /\ n >= 0)
                THEN Then(skipiter(M1), LAMBDA M2 : PopIter(M2))
                ELSE M1)

\* ; command -- iteration exit
cmd_char073(M, c) ==
    LET col == colon(M)
    IN  Then(getargE(M, c, "NAS"), LAMBDA M1 :
            LET n == M1.ret[1]
            IN  IF iterstack(M1) = <<>> THEN Raise(M1, "SNI")
                ELSE IF (~col /\ n >= 0) \/ (col /\ n < 0)
                THEN Then(skipiter(M1), LAMBDA M2 : PopIter(M2))
                ELSE M1)

\* Y command and EY command, also the page readers of the paging searches
cmd_y(M, c) == yank(M, BitAnd(M.t.ed, 2) = 0)
cmd_ey(M, c) == yank(M, FALSE)

\* nextpage (): "" is None
nextpage(M, np) == CASE np = "page" -> page(M)
                     [] np = "y" -> cmd_y(M, "")
                     [] np = "ey" -> cmd_ey(M, "")

\* The local variables of search: re, icase, n, rep, pos, laststart, start,
\* end, nextpage, match.

\* a turn that calls nextpage whether or not the input is at its end
SearchStepAtEnd(M, L) ==
    LET buf == M.b.text
        tmatch == re_match(L.re, buf, L.pos, L.icase)
        accept == /\ tmatch # None
                  /\ ~(/\ L.laststart # None
                       /\ L.laststart[1] # 0
                       /\ tmatch[1] + Len(L.re) > L.laststart[1])
        retry == L.n < 0 /\ ~accept /\ L.pos # 0
        match0 == IF L.n < 0 THEN (IF accept THEN tmatch ELSE None)
                  ELSE re_search(L.re, buf, L.pos, L.icase)
        last1 == IF L.n < 0 /\ accept THEN tmatch ELSE L.laststart
        match == IF match0 # None /\ ~(L.start <= match0[1] /\ match0[1] <= L.end)
                 THEN None ELSE match0
    IN  IF retry THEN [m |-> M, l |-> [L EXCEPT !.pos = L.pos - 1], how |-> "continue"]
        ELSE IF match = None
        THEN IF L.nextpage # ""
             THEN LET M1 == nextpage(M, L.nextpage)
                  IN  IF Failed(M1) THEN [m |-> M1, l |-> L, how |-> "raised"]
                      ELSE [m |-> M1,
                            l |-> [L EXCEPT !.laststart = last1, !.start = 0,
                                            !.pos = 0, !.end = end(M1)],
                            how |-> "paged"]
             ELSE [m |-> M, l |-> [L EXCEPT !.laststart = last1, !.match = None],
                   how |-> "failed"]
        ELSE [m |-> M,
              l |-> [L EXCEPT !.laststart = last1, !.match = match, !.rep = L.rep - 1],
              how |-> "matched"]

\* One turn of the while loop of search, entered with rep # 0.  The result
\* is the working state m, the locals l, and how the turn ended: "continue"
\* (pos stepped back), "paged" (nextpage was called and the loop continues),
\* "matched" (rep counted down), "failed" (no match and no further page) or
\* "raised" (nextpage raised an error).
SearchStep(M, L) ==
    LET buf == M.b.text
        tmatch == re_match(L.re, buf, L.pos, L.icase)
        accept == /\ tmatch # None
                  /\ ~(/\ L.laststart # None
                       /\ L.laststart[1] # 0
                       /\ tmatch[1] + Len(L.re) > L.laststart[1])
        retry == L.n < 0 /\ ~accept /\ L.pos # 0
        match0 == IF L.n < 0 THEN (IF accept THEN tmatch ELSE None)
                  ELSE re_search(L.re, buf, L.pos, L.icase)
        last1 == IF L.n < 0 /\ accept THEN tmatch ELSE L.laststart
        match == IF match0 # None /\ ~(L.start <= match0[1] /\ match0[1] <= L.end)
                 THEN None ELSE match0
    IN  IF retry THEN [m |-> M, l |-> [L EXCEPT !.pos = L.pos - 1], how |-> "continue"]
        ELSE IF match = None
        THEN IF L.nextpage # "" /\ _eoflag(M) = 0
             THEN LET M1 == nextpage(M, L.nextpage)
                  IN  IF Failed(M1) THEN [m |-> M1, l |-> L, how |-> "raised"]
                      ELSE [m |-> M1,
                            l |-> [L EXCEPT !.laststart = last1, !.start = 0,
                                            !.pos = 0, !.end = end(M1)],
                            how |-> "paged"]
             ELSE [m |-> M, l |-> [L EXCEPT !.laststart = last1, !.match = None],
                   how |-> "failed"]
        ELSE [m |-> M,
              l |-> [L EXCEPT !.laststart = last1, !.match = match, !.rep = L.rep - 1],
              how |-> "matched"]

\* The while loop of search.  The result is M with M.ok telling whether the
\* loop ended by exhausting rep, and the start of the last match in M.ret,
\* or M failed by an error of nextpage.
RECURSIVE SearchLoop(_, _)
SearchLoop(M, L) ==
    IF L.rep = 0 THEN [M EXCEPT !.ok = TRUE, !.ret = L.match]
    ELSE LET S == SearchStep(M, L)
         IN  CASE S.how = "raised" -> S.m
               [] S.how = "failed" -> [S.m EXCEPT !.ok = FALSE, !.ret = None]
               [] OTHER -> SearchLoop(S.m, S.l)

\* search, up to its while loop: the locals are left in M.ret
searchLocals(M, s, n, start, end0, np) ==
    LET M0 == IF s # <<>>
              THEN Then(strbuild(M, s), LAMBDA B : [B EXCEPT !.t.lastsearch = B.str])
              ELSE M
    IN  Then(M0, LAMBDA M1 :
            LET re == str2re(M1.t.lastsearch)
            IN  [M1 EXCEPT !.ret =
                    [re |-> re, icase |-> M1.t.ctrlx = 0, n |-> n,
                     rep |-> IF n < 0 THEN -n ELSE n,
                     pos |-> IF n < 0 THEN end0 ELSE start,
                     laststart |-> None, start |-> start, end |-> end0,
                     nextpage |-> IF n < 0 THEN "" ELSE np, match |-> None]])

\* search, from the end of its while loop: M.ok tells whether the loop ended
\* by exhausting rep, and M.ret is then the start of the last match
searchEnd(M2, re, col, topiffail) ==
    IF M2.ok
    THEN LET ms == M2.ret[1]
             me == ms + Len(re)
             M3 == [goto(M2, me) EXCEPT !.t.laststringlen = -(me - ms)]
         IN  IF col \/ (iterstack(M3) # <<>> /\ peeknextcmd(M3) = ";")
             THEN [setval(M3, -1) EXCEPT !.ok = TRUE]
             ELSE M3
    ELSE LET M3 == IF topiffail /\ BitAnd(M2.t.ed, 16) = 0 THEN goto(M2, 0) ELSE M2
         IN  IF col THEN [setval(M3, 0) EXCEPT !.ok = FALSE]
             ELSE IF iterstack(M3) # <<>>
             THEN LET M4 == setval(M3, 0)
                  IN  IF peeknextcmd(M4) # ";"
                      THEN Then(cmd_char073(M4, ";"), LAMBDA M5 : [M5 EXCEPT !.ok = FALSE])
                      ELSE [M4 EXCEPT !.ok = FALSE]
             ELSE Raise(M3, "SRH")

\* search (s, n, start, end, colon, topiffail, nextpage); M.ok is the result
search(M, s, n, start, end0, col, topiffail, np) ==
    Then(searchLocals(M, s, n, start, end0, np), LAMBDA M1 :
        Then(SearchLoop(M1, M1.ret), LAMBDA M2 :
            searchEnd(M2, M1.ret.re, col, topiffail)))

----------------------------------------------------------------------------
(* Character codes: ord and chr on the characters of the model, as the set *)
(* of pairs <<character, code>>.  A code with no character in the set      *)
(* gives the character "?".                                                *)

CharCode == {
    <<CTRLA, 1>>, <<CTRLC, 3>>, <<CTRLD, 4>>, <<CTRLE, 5>>, <<TAB, 9>>, <<LF, 10>>, <<FF, 12>>, <<CR, 13>>,
    <<CTRLN, 14>>, <<CTRLO, 15>>, <<CTRLQ, 17>>, <<CTRLR, 18>>, <<CTRLS, 19>>, <<CTRLT, 20>>, <<CTRLU, 21>>, <<CTRLV, 22>>, <<CTRLW, 23>>, <<CTRLX, 24>>,
    <<ESC, 27>>, <<CTRLCARET, 30>>, <<" ", 32>>, <<"!", 33>>, <<"\"", 34>>, <<"#", 35>>,
    <<"$", 36>>, <<"%", 37>>, <<"&", 38>>, <<"'", 39>>, <<"(", 40>>, <<")", 41>>,
    <<"*", 42>>, <<"+", 43>>, <<",", 44>>, <<"-", 45>>, <<".", 46>>, <<"/", 47>>,
    <<"0", 48>>, <<"1", 49>>, <<"2", 50>>, <<"3", 51>>, <<"4", 52>>, <<"5", 53>>,
    <<"6", 54>>, <<"7", 55>>, <<"8", 56>>, <<"9", 57>>, <<":", 58>>, <<";", 59>>,
    <<"<", 60>>, <<"=", 61>>, <<">", 62>>, <<"?", 63>>, <<"@", 64>>, <<"A", 65>>,
    <<"B", 66>>, <<"C", 67>>, <<"D", 68>>, <<"E", 69>>, <<"F", 70>>, <<"G", 71>>,
    <<"H", 72>>, <<"I", 73>>, <<"J", 74>>, <<"K", 75>>, <<"L", 76>>, <<"M", 77>>,
    <<"N", 78>>, <<"O", 79>>, <<"P", 80>>, <<"Q", 81>>, <<"R", 82>>, <<"S", 83>>,
    <<"T", 84>>, <<"U", 85>>, <<"V", 86>>, <<"W", 87>>, <<"X", 88>>, <<"Y", 89>>,
    <<"Z", 90>>, <<"[", 91>>, <<BSL, 92>>, <<"]", 93>>, <<"^", 94>>, <<"_", 95>>,
    <<"a", 97>>, <<"b", 98>>, <<"c", 99>>, <<"d", 100>>, <<"e", 101>>, <<"f", 102>>,
    <<"g", 103>>, <<"h", 104>>, <<"i", 105>>, <<"j", 106>>, <<"k", 107>>, <<"l", 108>>,
    <<"m", 109>>, <<"n", 110>>, <<"o", 111>>, <<"p", 112>>, <<"q", 113>>, <<"r", 114>>,
    <<"s", 115>>, <<"t", 116>>, <<"u", 117>>, <<"v", 118>>, <<"w", 119>>, <<"x", 120>>,
    <<"y", 121>>, <<"z", 122>>, <<"|", 124>>
}

ord(c) == (CHOOSE p \in CharCode : p[1] = c)[2]
chr(n) == IF \E p \in CharCode : p[2] = n
          THEN (CHOOSE p \in CharCode : p[2] = n)[1]
          ELSE "?"

----------------------------------------------------------------------------
(* The command handlers.  cmd_x is the method x of command_level; c is the *)
(* command name that do () passes to it.                                   *)

\* null, line feed, form feed, carriage return, space
cmd_nop(M, c) == M

\* ! command -- tag or comment
cmd_char041(M, c) == strarg(M, c, "!")

\* ^A command -- print text
cmd_char001(M, c) == Then(strarg(M, c, CTRLA), LAMBDA M1 : clearargs(M1))

\* tab command -- insert text including the leading tab
cmd_char011(M, c) ==
    Then(strarg(M, c, ESC), LAMBDA M1 : clearargs(insert(M1, <<TAB>> \o M1.str)))

\* ^U command -- set Q-reg text
cmd_char025(M, c) ==
    Then(qreg(M), LAMBDA M1 :
        LET r == M1.reg
        IN  Then(strarg(M1, c, ESC), LAMBDA M2 :
                LET q == RegVal(M2, r)
                    t == IF colon(M2) THEN q.text \o M2.str ELSE M2.str
                IN  clearargs(RegSet(M2, r, [q EXCEPT !.text = t]))))

\* ESCAPE -- exit the current level if $$, otherwise clear the expression
cmd_char033(M, c) ==
    IF peeknextcmd(M) = ESC THEN [M EXCEPT !.exit = "level"] ELSE clearargs(M)

cmd_char050(M, c) == leftparen(M)
cmd_char051(M, c) == rightparen(M)
cmd_operator(M, c) == operator(M, c)
cmd_digit(M, c) == digit(M, c)

\* , command -- second operand marker
cmd_char054(M, c) ==
    IF M.t.arg2 = None
    THEN Then(getargE(M, c, "ARG"), LAMBDA M1 :
            IF M1.ret[1] < 0 THEN Raise(M1, "NCA")
            ELSE [M1 EXCEPT !.t.arg2 = M1.ret])
    ELSE Raise(M, "ARG")

\* . command -- current buffer position
cmd_char056(M, c) == setval(M, M.b.dot)

\* : command -- modifier
cmd_char072(M, c) ==
    IF peeknextcmd(M) = ":"
    THEN Then(nextcmd([M EXCEPT !.t.colons = 1]), LAMBDA M1 : [M1 EXCEPT !.t.colons = 2])
    ELSE [M EXCEPT !.t.colons = 1]

\* < command -- iteration start
cmd_char074(M, c) ==
    Then(getarg(M, c), LAMBDA M0 :
        LET n == M0.ret
            M1 == clearargs(M0)
        IN  IF n = None THEN SetIterstack(M1, Append(iterstack(M1), iter(M1, 0)))
            ELSE IF n[1] <= 0 THEN skipiter(M1)
            ELSE SetIterstack(M1, Append(iterstack(M1), iter(M1, n[1]))))

\* > command -- iteration end
cmd_char076(M, c) ==
    IF iterstack(M) = <<>> THEN Raise(M, "BNI")
    ELSE again(clearargs(M))

\* iter.again (False, delta) of the innermost iteration, the form F< and F>
\* use: an iteration whose count runs out is left by skipping to its end
againFlow(M, delta) ==
    LET it == iterstack(M)[Len(iterstack(M))]
        M1 == [M EXCEPT !.lv[Len(M.lv)].iterstack[Len(iterstack(M))].count = it.count - delta]
    IN  IF it.count # 0 /\ it.count - delta = 0 THEN Then(skipiter(M1), LAMBDA M2 : PopIter(M2))
        ELSE clearargs(SetCmdpos(IF it.count # 0 THEN M1 ELSE M, it.start))

\* F' command -- flow to the end of the conditional
cmd_fchar047(M, c) == skipcond(clearargs(M), {"'"})

\* F< command -- flow to the start of the iteration
cmd_fchar074(M, c) ==
    IF iterstack(M) = <<>> THEN Raise(M, "BNI")
    ELSE againFlow(M, 0)

\* F> command -- flow to the end of the iteration
cmd_fchar076(M, c) ==
    IF iterstack(M) = <<>> THEN [M EXCEPT !.exit = "level"]
    ELSE againFlow(M, 1)

\* s.startswith (x, p)
startswith(s, x, p) ==
    /\ p >= 0
    /\ p + Len(x) <= Len(s)
    /\ \A k \in 1 .. Len(x) : s[p + k] = x[k]

\* findtag (c): from the command position on, the text is skipped up to the
\* next !, < or >.  A label that is not the tag is passed, a nested iteration
\* is skipped, an iteration end pops the iteration stack
RECURSIVE findtag(_, _)
findtag(M, c) ==
    Bind(skip(M, "tag"), LAMBDA M1 :
        IF M1.chr = "" THEN Raise(M1, "TAG")
        ELSE IF M1.chr = "!"
        THEN LET before == cmdpos(M1) - 2
                 prev   == At(command(M1), IF before < 0 THEN before + Len(command(M1)) ELSE before)
             IN  Then(IF prev = "@" THEN nextcmd(M1) ELSE [M1 EXCEPT !.chr = "!"], LAMBDA M2 :
                     LET term == M2.chr
                     IN  IF startswith(command(M2), c \o <<term>>, cmdpos(M2))
                         THEN SetCmdpos(M2, cmdpos(M2) + Len(c) + 1)
                         ELSE Bind(Index(command(M2), term, cmdpos(M2)), LAMBDA e :
                                  IF e < 0 THEN Raise(M2, "UTC")
                                  ELSE findtag(SetCmdpos(M2, e + 1), c)))
        ELSE IF M1.chr = "<" THEN Then(skipiter(M1), LAMBDA M2 : findtag(M2, c))
        ELSE IF iterstack(M1) = <<>> THEN Raise(M1, "BNI")
        ELSE findtag(PopIter(M1), c))

\* s.split (sep)
RECURSIVE strsplit(_, _)
strsplit(s, sep) ==
    Bind(Index(s, sep, 0), LAMBDA e :
        IF e < 0 THEN <<s>>
        ELSE <<Slice(s, 0, e)>> \o strsplit(SliceFrom(s, e + 1), sep))

\* O command -- go to the tag, or to the tag the argument selects in a list
cmd_o(M, c) ==
    Then(strarg(M, c, ESC), LAMBDA S :
    Then(strbuild(S, S.str), LAMBDA B :
    Then(getarg(B, c), LAMBDA M0 :
        LET tag  == B.str
            n    == M0.ret
            M1   == clearargs(M0)
            tags == strsplit(tag, ",")
            from == IF iterstack(M1) # <<>> THEN iterstack(M1)[Len(iterstack(M1))].start ELSE 0
        IN  IF Len(tag) = 0 THEN Raise(M1, "ILL")
            ELSE IF n # None /\ ~(0 <= n[1] - 1 /\ n[1] - 1 < Len(tags)) THEN M1
            ELSE findtag(SetCmdpos(M1, from), IF n # None THEN tags[n[1]] ELSE tag))))

\* ^D command -- radix ten
cmd_char004(M, c) == clearargs([M EXCEPT !.t.radix = 10])

\* ^E command -- the form feed flag
cmd_char005(M, c) == setval(M, _ffflag(M))

\* ^O command -- radix eight
cmd_char017(M, c) == clearargs([M EXCEPT !.t.radix = 8])

\* a ^R that takes every argument for a radix
cmd_char022Any(M, c) ==
    Then(getoptarg(M, c), LAMBDA M1 :
        IF M1.ret = None THEN setval(clearmods(M1), M1.t.radix)
        ELSE [clearargs(M1) EXCEPT !.t.radix = M1.ret[1]])

\* ^R command -- the radix, or set the radix
cmd_char022(M, c) ==
    Then(getoptarg(M, c), LAMBDA M1 :
        LET r == M1.ret
        IN  IF r = None THEN setval(clearmods(M1), M1.t.radix)
            ELSE IF r[1] \in {8, 10, 16} THEN [clearargs(M1) EXCEPT !.t.radix = r[1]]
            ELSE Raise(M1, "IRA"))

\* @ command -- modifier
cmd_char100(M, c) == [M EXCEPT !.t.atmod = TRUE]

\* A command -- append, or the value of a character of the buffer
cmd_a(M, c) ==
    LET col == colon(M)
    IN  Then(getarg(M, c), LAMBDA M1 :
            IF M1.ret = None
            THEN Then(append(clearargs(M1)), LAMBDA M2 :
                     IF col THEN setval(M2, M2.ret[1]) ELSE M2)
            ELSE LET pos == M1.b.dot + M1.ret[1]
                 IN  IF 0 <= pos /\ pos < end(M1)
                     THEN setval(M1, ord(M1.b.text[pos + 1]))
                     ELSE setval(M1, -1))

cmd_b(M, c) == setval(M, 0)
cmd_z(M, c) == setval(M, end(M))

\* C command -- move forward n characters
cmd_c(M, c) ==
    Then(getargD(M, c, 1), LAMBDA M1 :
        LET newpos == M1.b.dot + M1.ret[1]
        IN  IF 0 <= newpos /\ newpos <= end(M1) THEN goto(M1, newpos)
            ELSE Raise(M1, "POP"))

\* R command -- move backward n characters
cmd_r(M, c) ==
    Then(getargD(M, c, 1), LAMBDA M1 :
        LET newpos == M1.b.dot - M1.ret[1]
        IN  IF 0 <= newpos /\ newpos <= end(M1) THEN goto(M1, newpos)
            ELSE Raise(M1, "POP"))

\* D command -- delete n characters, or a range
cmd_d(M, c) ==
    LET m == M.t.arg2
    IN  Then(getargD(M, c, 1), LAMBDA M1 :
            LET n == M1.ret[1]
            IN  IF m = None
                THEN IF 0 <= M1.b.dot + n /\ M1.b.dot + n <= end(M1)
                     THEN LET M2 == IF n < 0 THEN goto(M1, M1.b.dot + n) ELSE M1
                              k == IF n < 0 THEN -n ELSE n
                          IN  clearmods(IF k # 0 THEN delete(M2, k) ELSE M2)
                     ELSE Raise(M1, "POP")
                ELSE IF 0 <= m[1] /\ m[1] <= n /\ n <= end(M1)
                     THEN clearmods(delete(goto(M1, m[1]), n - m[1]))
                     ELSE Raise(M1, "POP"))

\* I command -- insert a string, or the character with the code given
cmd_i(M, c) ==
    Then(getarg(M, c), LAMBDA M1 :
        LET n == M1.ret
        IN  Then(strarg(M1, c, ESC), LAMBDA M2 :
                IF Len(M2.str) = 0
                THEN clearargs(insert(M2, IF n # None THEN <<chr(n[1])>> ELSE <<>>))
                ELSE IF n # None THEN Raise(M2, "IIA")
                ELSE clearargs(insert(M2, M2.str))))

\* J command -- move to the specified offset in the buffer
cmd_j(M, c) == Then(getargD(M, c, 0), LAMBDA M1 : goto(M1, M1.ret[1]))

\* L command -- move the specified number of lines
cmd_l(M, c) == Then(getargD(M, c, 1), LAMBDA M1 : goto(M1, line(M1, M1.ret[1])))

\* P command: for i in range (repeat): self.buffer.writepage (part)
RECURSIVE WritePages(_, _, _)
WritePages(M, part, repeat) ==
    IF repeat <= 0 \/ Failed(M) THEN M
    ELSE WritePages(writepage(M, part), part, repeat - 1)

\* P command: for i in range (n): ret = self.buffer.page ()
RECURSIVE Pages(_, _)
Pages(M, n) ==
    IF n <= 0 \/ Failed(M) THEN M
    ELSE Pages(page(M), n - 1)

\* P command -- page ahead; PW command -- write the buffer
cmd_p(M, c) ==
    LET m == M.t.arg2
        col == colon(M)
    IN  Then(getargD(M, c, 1), LAMBDA M1 :
            LET n == M1.ret[1]
                c2 == lower(peeknextcmd(M1))
            IN  IF m # None \/ c2 = "w"
                THEN Then(IF c2 = "w" THEN nextcmd(M1) ELSE M1, LAMBDA M2 :
                        IF m # None THEN WritePages(M2, <<m[1], n>>, 1)
                        ELSE IF n <= 0 THEN Raise(M2, "IPA")
                        ELSE WritePages(M2, None, n))
                ELSE IF n <= 0 THEN Raise(M1, "IPA")
                ELSE Then(Pages(M1, n), LAMBDA M2 :
                        IF col THEN setval(M2, M2.ret[1]) ELSE M2))

\* ^N command -- the end of file flag
cmd_char016(M, c) == setval(M, _eoflag(M))

\* an error of the Python run time (TypeError): no TECO error object is made,
\* so the expression state is left as it is
PyRaise(M) == [M EXCEPT !.err = "PY"]

\* teco.bitflag (name): read, set, or fiddle the bits of a flag
bitflag(M, name) ==
    Then(getoptarg(M, name), LAMBDA M1 :
        IF M1.ret = None THEN setval(M1, M1.t[name])
        ELSE LET n0 == M1.ret[1]
                 n1 == IF M1.t.arg2 # None
                       THEN BitAnd(BitOr(M1.t[name], n0), BitNot(M1.t.arg2[1]))
                       ELSE n0
                 n2 == IF BitAnd(n1, 32768) # 0 THEN BitOr(n1, -32768) ELSE n1
                 fixed == IF name = "et" THEN M1.t.etfixed ELSE 0
             IN  [clearargs(M1) EXCEPT !.t[name] = BitOr(n2, fixed)])

\* the display of wxPython is available; the screen watch of curses is
wxpresent(M) == M.t.etfixed = 1024
cursespresent(M) == M.t.etfixed = 512

\* the size of the terminal, as screen.getmaxyx () gives it
ScreenRows == 24
ScreenCols == 80

\* teco.enable_curses and teco.watch: the screen is started and its size
\* noted; what is drawn on it is not part of the state
watch(M) ==
    IF ~cursespresent(M) THEN M
    ELSE [M EXCEPT !.t.screen = TRUE,
                   !.t.watchparams[3] = ScreenRows,
                   !.t.watchparams[2] = ScreenCols]

\* endwin ()
endwin(M) == [M EXCEPT !.t.screen = FALSE]

\* command_handler.getch: the next character typed, left in M.chr.  A ^C is
\* trapped when bit 15 of ET is set, which clears the bit
getch(M, trap_ctrlc) ==
    IF M.keys = <<>> THEN [M EXCEPT !.exit = "blocked"]
    ELSE LET c == Head(M.keys)
             M1 == [M EXCEPT !.keys = Tail(M.keys), !.chr = c]
         IN  IF c = CTRLC /\ trap_ctrlc
             THEN IF BitAnd(M1.t.et, 32768) # 0
                  THEN [M1 EXCEPT !.t.et = BitAnd(M1.t.et, 32767)]
                  ELSE Raise(M1, "XAB")
             ELSE M1

\* ^T command -- with an argument, type the character; without one, read a
\* character from the terminal and return its code
cmd_char024(M, c) ==
    Then(getoptarg(M, c), LAMBDA M1 :
        IF M1.ret = None
        THEN LET M2 == clearmods(M1)
             IN  IF BitAnd(M2.t.et, 32) # 0 THEN setval(M2, -1)
                 ELSE Then(getch(M2, TRUE), LAMBDA M3 : setval(M3, ord(M3.chr)))
        ELSE clearargs(M1))

\* the loop of :W that inserts what is typed until a terminator
RECURSIVE WatchLoop(_, _, _)
WatchLoop(M, n, term) ==
    IF ~M.t.screen THEN PyRaise(M)
    ELSE IF M.keys = <<>> THEN [M EXCEPT !.exit = "blocked"]
    ELSE LET ch == ord(Head(M.keys))
             M1 == [M EXCEPT !.keys = Tail(M.keys)]
             M2 == IF ch # 3 THEN M1
                   ELSE IF BitAnd(M1.t.et, 32768) # 0
                   THEN [M1 EXCEPT !.t.et = BitAnd(M1.t.et, -32768)]
                   ELSE Raise(M1, "XAB")
         IN  Then(M2, LAMBDA M3 :
                 IF \/ BitAnd(n, 64) # 0
                    \/ (ch # 9 /\ ch < 32)
                    \/ ch > 126
                    \/ ch \in term
                 THEN setval(M3, ch)
                 ELSE LET c1 == IF BitAnd(n, 4) # 0 THEN upper(chr(ch)) ELSE chr(ch)
                          M4 == insert(M3, <<c1>>)
                      IN  WatchLoop(IF BitAnd(n, 32) = 0 THEN watch(M4) ELSE M4, n, term))

\* W command -- watch the buffer contents
cmd_w(M, c) ==
    LET m == M.t.arg2
        col == colon(M)
    IN  Then(getarg(M, c), LAMBDA M1 :
            LET n == M1.ret
            IN  IF wxpresent(M1) THEN M1
                ELSE IF cursespresent(M1)
                THEN IF col
                     THEN LET n1 == IF n = None THEN 0 ELSE n[1]
                          IN  IF BitAnd(n1, -256) # 0
                              THEN LET M2 == IF BitAnd(n1, 1) = 0 THEN watch(M1) ELSE M1
                                       term == IF m = None \/ m = Some(0) THEN {}
                                               ELSE {BitAnd(m[1], 255), m[1] \div 256}
                                   IN  IF BitAnd(n1, 2) # 0 THEN PyRaise(M2)
                                       ELSE WatchLoop(M2, n1, term)
                              ELSE IF ~(0 <= n1 /\ n1 <= 7) THEN Raise(M1, "ARG")
                              ELSE IF m = None THEN setval(M1, M1.t.watchparams[n1 + 1])
                              ELSE IF n1 # 0
                              THEN [M1 EXCEPT !.t.watchparams[n1 + 1] = m[1]]
                              ELSE M1
                     ELSE IF n = None THEN endwin(M1)
                     ELSE LET n1 == IF n[1] = 0 THEN 16 ELSE n[1]
                          IN  IF n1 > 0 THEN [M1 EXCEPT !.t.curline = n1]
                              ELSE watch(M1)
                ELSE Raise(M1, "ILL"))

cmd_ed(M, c) == bitflag(M, "ed")
cmd_et(M, c) == bitflag(M, "et")

\* EC command -- finish with the current file
cmd_ec(M, c) == Then(ec(M), LAMBDA M1 : clearargs(M1))

\* EF command -- close the current output file
cmd_ef(M, c) == ef(M)

\* EK command -- discard the output file
cmd_ek(M, c) == ek(M)

\* sys.exit () of command_level.exit
exit(M) == [M EXCEPT !.exit = "system"]

\* EX command -- finish with files, then exit TECO
cmd_ex(M, c) == Then(cmd_ec(M, c), LAMBDA M1 : exit(M1))

\* ^C command -- exit TECO at the interactive level, stop execution in a macro
cmd_char003(M, c) ==
    IF Len(M.lv) = 1 THEN exit(M) ELSE [M EXCEPT !.exit = "execution"]

\* ER command -- open input file
cmd_er(M, c) ==
    Then(strarg(M, c, ESC), LAMBDA M1 :
        Then(strbuild(M1, M1.str), LAMBDA M2 :
            LET col == colon(M2)
            IN  Then(er(clearargs(M2), M2.str, col), LAMBDA M3 :
                    IF col THEN setval(M3, M3.ret[1]) ELSE M3)))

\* EB command -- open a file for editing, with backup
cmd_eb(M, c) ==
    Then(strarg(M, c, ESC), LAMBDA M1 :
        Then(strbuild(M1, M1.str), LAMBDA M2 :
            LET col == colon(M2)
            IN  Then(eb(clearargs(M2), M2.str, col), LAMBDA M3 :
                    IF col THEN setval(M3, M3.ret[1]) ELSE M3)))

\* EW command -- open output file
cmd_ew(M, c) ==
    Then(strarg(M, c, ESC), LAMBDA M1 :
        Then(strbuild(M1, M1.str), LAMBDA M2 :
            LET col == colon(M2)
            IN  Then(ew(clearargs(M2), M2.str, col), LAMBDA M3 :
                    IF col THEN setval(M3, M3.ret[1]) ELSE M3)))

\* a variant of SearchRange that never asks for dot to be reset
SearchRangeNoReset(M, m0, n, colons) ==
    LET m == IF m0 = Some(0) THEN None ELSE m0
        absm == IF m = None THEN 0 ELSE IF m[1] < 0 THEN -m[1] ELSE m[1]
        start == IF n < 0 THEN (IF m # None THEN M.b.dot - absm ELSE 0) ELSE M.b.dot
        end0 == IF n < 0 THEN M.b.dot ELSE IF m # None THEN M.b.dot + absm ELSE end(M)
    IN  IF colons > 1 THEN <<M.b.dot, M.b.dot, FALSE>>
        ELSE <<start, end0, FALSE>>

\* the search range of S and FS: <<start, end, topiffail>> from the arguments
\* m (None when absent), n and the number of colons
SearchRange(M, m0, n, colons) ==
    LET m == IF m0 = Some(0) THEN None ELSE m0
        absm == IF m = None THEN 0 ELSE IF m[1] < 0 THEN -m[1] ELSE m[1]
        start == IF n < 0 THEN (IF m # None THEN M.b.dot - absm ELSE 0) ELSE M.b.dot
        end0 == IF n < 0 THEN M.b.dot ELSE IF m # None THEN M.b.dot + absm ELSE end(M)
    IN  IF colons > 1 THEN <<M.b.dot, M.b.dot, FALSE>>
        ELSE <<start, end0, m0 # Some(0)>>

\* S command, also N, _ and E_, up to the call of search: the arguments of
\* the call are left in M.ret
cmd_sArgs(M, c) ==
    Then(strarg(M, c, ESC), LAMBDA M1 :
        LET colons == M1.t.colons
            m0 == M1.t.arg2
            col == colon(M1)
        IN  Then(getargD(M1, c, 1), LAMBDA M2 :
                LET n == M2.ret[1]
                    rg == SearchRange(M2, m0, n, colons)
                    np == CASE c = "n" -> "page" [] c = "_" -> "y"
                            [] c = "e_" -> "ey" [] OTHER -> ""
                IN  IF n = 0 THEN Raise(M2, "ISA")
                    ELSE [M2 EXCEPT !.ret = [s |-> M1.str, n |-> n, start |-> rg[1],
                                             end |-> rg[2], col |-> col,
                                             topiffail |-> rg[3], np |-> np]]))

\* S command, also N, _ and E_ -- search for a string
cmd_s(M, c) ==
    Then(cmd_sArgs(M, c), LAMBDA A :
        search(A, A.ret.s, A.ret.n, A.ret.start, A.ret.end, A.ret.col,
               A.ret.topiffail, A.ret.np))

\* a replacement that leaves dot after the match and removes what follows it
ReplaceAfter(M, rep) == insert(delete(M, -M.t.laststringlen), rep)

\* the replacement of the string just matched: used by FS, FC and FR
Replace(M, rep) ==
    LET M1 == goto(M, M.b.dot + M.t.laststringlen)
    IN  insert(delete(M1, -M1.t.laststringlen), rep)

\* FS command, also FN and F_, up to the call of search: the arguments of
\* the call and the replacement are left in M.ret
cmd_fsArgs(M, c) ==
    Then(strargs(M, c), LAMBDA M1 :
        LET colons == M1.t.colons
            m0 == M1.t.arg2
            col == colon(M1)
        IN  Then(getargD(M1, c, 1), LAMBDA M2 :
                LET n == M2.ret[1]
                    rg == SearchRange(M2, m0, n, colons)
                    np == CASE c = "fn" -> "page" [] c = "f_" -> "y" [] OTHER -> ""
                IN  IF n = 0 THEN Raise(M2, "ISA")
                    ELSE [M2 EXCEPT !.ret = [s |-> M1.str[1], n |-> n, start |-> rg[1],
                                             end |-> rg[2], col |-> col,
                                             topiffail |-> rg[3], np |-> np,
                                             replace |-> M1.str[2]]]))

\* FS command, also FN and F_ -- search and replace
cmd_fs(M, c) ==
    Then(cmd_fsArgs(M, c), LAMBDA A :
        Then(search(A, A.ret.s, A.ret.n, A.ret.start, A.ret.end, A.ret.col,
                    A.ret.topiffail, A.ret.np),
             LAMBDA M3 : IF M3.ok THEN Replace(M3, A.ret.replace) ELSE M3))

\* the bounds of FB and FC: <<count, m, n>> from the arguments m (None when
\* absent) and n
Bounds(M, m0, n) ==
    LET m1 == IF m0 = None THEN M.b.dot ELSE m0[1]
        n1 == IF m0 = None THEN M.b.dot + line(M, n) ELSE n
    IN  IF m1 > n1 THEN <<-1, n1, m1>> ELSE <<1, m1, n1>>

\* FB command -- bounded search
cmd_fb(M, c) ==
    Then(strarg(M, c, ESC), LAMBDA M1 :
        LET m0 == M1.t.arg2
            col == colon(M1)
        IN  Then(getarg(M1, c), LAMBDA M2 :
                IF M2.ret = None THEN PyRaise(M2)
                ELSE LET bd == Bounds(M2, m0, M2.ret[1])
                     IN  search(M2, M1.str, bd[1], bd[2], bd[3], col, FALSE, "")))

\* FC command -- bounded search and replace
cmd_fc(M, c) ==
    Then(strargs(M, c), LAMBDA M1 :
        LET m0 == M1.t.arg2
            col == colon(M1)
        IN  Then(getarg(M1, c), LAMBDA M2 :
                IF M2.ret = None THEN PyRaise(clearargs(M2))
                ELSE LET M3 == clearargs(M2)
                         bd == Bounds(M3, m0, M2.ret[1])
                     IN  Then(search(M3, M1.str[1], bd[1], bd[2], bd[3], col, FALSE, ""),
                              LAMBDA M4 : IF M4.ok THEN Replace(M4, M1.str[2]) ELSE M4)))

\* FR command -- replace the string previously matched or inserted
cmd_fr(M, c) == Then(strarg(M, c, ESC), LAMBDA M1 : Replace(M1, M1.str))

\* G command -- get text from the Q-register into the buffer
cmd_g(M, c) ==
    Then(qregstr(M), LAMBDA M1 :
        IF colon(M1) THEN clearargs(M1) ELSE clearargs(insert(M1, M1.str)))

\* a new command level that starts with an empty register stack
PushLevelOwnStack(M, s, id) ==
    [M EXCEPT !.t.qstack = <<>>,
              !.lv = Append(M.lv, [command |-> s, cmdpos |-> 0,
                                   iterstack |-> <<>>, qregs |-> id])]

\* a new command level running the text s, bound to the local registers id
PushLevel(M, s, id) ==
    [M EXCEPT !.lv = Append(M.lv, [command |-> s, cmdpos |-> 0,
                                   iterstack |-> <<>>, qregs |-> id])]

\* command_level (teco, q): self.qregs = q or { }, a dictionary of its own
\* when q is None or empty
command_level(M, s, q) ==
    IF q # None /\ DOMAIN M.sc[q[1]] # {}
    THEN PushLevel(M, s, q[1])
    ELSE PushLevel([M EXCEPT !.sc = Append(M.sc, EmptyDict)], s, Len(M.sc) + 1)

\* M command -- macro execution: the new level starts to run the register
cmd_m(M, c) ==
    Then(qreg(M), LAMBDA M1 :
        LET q == RegVal(M1, M1.reg)
        IN  IF colon(M1) THEN command_level(clearmods(M1), q.text, Some(Cur(M1).qregs))
            ELSE command_level(M1, q.text, None))

\* Q command -- the numeric value of the Q-register, or a character of its text
cmd_q(M, c) ==
    LET col == colon(M)
    IN  Then(getoptarg(M, c), LAMBDA M1 :
            LET n == M1.ret
            IN  Then(qreg(M1), LAMBDA M2 :
                    LET q == RegVal(M2, M2.reg)
                    IN  IF col THEN setval(clearmods(M2), Len(q.text))
                        ELSE IF n # None
                        THEN setval(clearargs(M2),
                                    IF 0 <= n[1] /\ n[1] < Len(q.text)
                                    THEN ord(q.text[n[1] + 1]) ELSE -1)
                        ELSE setval(clearmods(M2), q.num)))

\* U command -- set the numeric part of the Q-register
cmd_u(M, c) ==
    Then(qreg(M), LAMBDA M1 :
        LET r == M1.reg
        IN  Then(getargE(M1, c, "NAU"), LAMBDA M2 :
                RegSet(M2, r, [RegVal(M2, r) EXCEPT !.num = M2.ret[1]])))

\* the characters str.isalpha, str.isdigit, str.islower and str.isupper hold of
isalpha(c) == c \in LowerLetters \cup UpperLetters
isdigit(c) == c \in DigitChars
islower(c) == c \in LowerLetters
isupper(c) == c \in UpperLetters

\* a table of conditions in which E and N have changed places
CondHoldsSwapped(t, n, nc) ==
    CASE t = "a" -> isalpha(nc)
      [] t = "c" -> isalnum(nc) \/ nc \in {"", "$", ".", "_"}
      [] t = "d" -> isdigit(nc)
      [] t \in {"n", "f", "u", "="} -> n = 0
      [] t \in {"g", ">"} -> n > 0
      [] t \in {"l", "s", "t", "<"} -> n < 0
      [] t = "e" -> n # 0
      [] t = "r" -> isalnum(nc)
      [] t = "v" -> islower(nc)
      [] t = "w" -> isupper(nc)
      [] OTHER -> FALSE

\* the conditions of the " command: t is the condition letter in lower case,
\* n the argument and nc the character chr (n)
CondHolds(t, n, nc) ==
    CASE t = "a" -> isalpha(nc)
      [] t = "c" -> isalnum(nc) \/ nc \in {"", "$", ".", "_"}
      [] t = "d" -> isdigit(nc)
      [] t \in {"e", "f", "u", "="} -> n = 0
      [] t \in {"g", ">"} -> n > 0
      [] t \in {"l", "s", "t", "<"} -> n < 0
      [] t = "n" -> n # 0
      [] t = "r" -> isalnum(nc)
      [] t = "v" -> islower(nc)
      [] t = "w" -> isupper(nc)
      [] OTHER -> FALSE

\* " command -- conditional execution range start.  nc is chr (n), the empty
\* string when n is no character code; the empty string is in "$._"
cmd_char042(M, c) ==
    Then(getargE(M, c, "NAQ"), LAMBDA M1 :
        LET n == M1.ret[1]
            nc == IF 0 <= n /\ n < 1114112 THEN chr(n) ELSE ""
        IN  Then(nextcmd(M1), LAMBDA M2 :
                LET t == lower(M2.chr)
                    known == {"a", "c", "d", "e", "f", "u", "=", "g", ">", "l", "s",
                              "t", "<", "n", "r", "v", "w"}
                    cond == CondHolds(t, n, nc)
                IN  IF t \notin known THEN Raise(M2, "IQC")
                    ELSE IF ~cond THEN skipcond(M2, {"|", "'"})
                    ELSE M2))

\* ' command -- conditional range end
cmd_char047(M, c) == M

\* | command -- the start of the else part: skip to the end of the conditional
cmd_char174(M, c) == skipcond(M, {"'"})

\* ^S command -- minus the length of the last string
cmd_char023(M, c) == setval(M, M.t.laststringlen)

\* the digits of the radix, and the value of a digit
RadixDigits(radix) ==
    IF radix = 8 THEN {"0", "1", "2", "3", "4", "5", "6", "7"}
    ELSE IF radix = 10 THEN DigitChars
    ELSE DigitChars \cup {"a", "b", "c", "d", "e", "f", "A", "B", "C", "D", "E", "F"}
HexVal(c) == IF c \in DigitChars THEN DigitVal(c)
             ELSE CASE lower(c) = "a" -> 10 [] lower(c) = "b" -> 11 [] lower(c) = "c" -> 12
                    [] lower(c) = "d" -> 13 [] lower(c) = "e" -> 14 [] lower(c) = "f" -> 15
HexDigit == <<"0", "1", "2", "3", "4", "5", "6", "7", "8", "9", "a", "b", "c", "d", "e", "f">>

\* the end of the digits of the radix that start at position p
RECURSIVE DigitsEnd(_, _, _)
DigitsEnd(buf, p, radix) ==
    IF At(buf, p) \in RadixDigits(radix) THEN DigitsEnd(buf, p + 1, radix) ELSE p

\* int (s, radix) of a string of digits, most significant first
RECURSIVE DigitsVal(_, _)
DigitsVal(s, radix) ==
    IF s = <<>> THEN 0
    ELSE DigitsVal(SubSeq(s, 1, Len(s) - 1), radix) * radix + HexVal(s[Len(s)])

\* "%o" % n, "%d" % n, "%x" % n
RECURSIVE DigitString(_, _)
DigitString(n, radix) ==
    IF n < 0 THEN <<"-">> \o DigitString(-n, radix)
    ELSE IF n < radix THEN <<HexDigit[n + 1]>>
    ELSE DigitString(n \div radix, radix) \o <<HexDigit[(n % radix) + 1]>>

\* \ command -- number to text with an argument, text to number without
cmd_char134(M, c) ==
    Then(getoptarg(M, c), LAMBDA M1 :
        IF M1.ret = None
        THEN LET buf == M1.b.text
                 dot == M1.b.dot
                 radix == IF M1.t.radix \in {8, 10} THEN M1.t.radix ELSE 16
                 signed == At(buf, dot) \in {"+", "-"}
                 from == IF signed THEN dot + 1 ELSE dot
                 to == DigitsEnd(buf, from, radix)
                 val == DigitsVal(Slice(buf, from, to), radix)
                 M2 == clearmods(M1)
             IN  IF to = from THEN setval(M2, 0)
                 ELSE setval([M2 EXCEPT !.b.dot = to],
                             IF At(buf, dot) = "-" THEN -val ELSE val)
        ELSE insert(clearargs(M1),
                    DigitString(M1.ret[1], IF M1.t.radix \in {8, 10} THEN M1.t.radix ELSE 16)))

\* % command -- increment the Q-register and return the result
cmd_char045(M, c) ==
    Then(getoptarg(M, c), LAMBDA M1 :
        LET n == IF M1.ret = None THEN 1 ELSE M1.ret[1]
        IN  Then(qreg(M1), LAMBDA M2 :
                LET q == RegVal(M2, M2.reg)
                IN  setval(RegSet(M2, M2.reg, [q EXCEPT !.num = n + q.num]), n + q.num)))

\* [ command -- push a copy of the Q-register onto the Q-register stack
cmd_char133(M, c) ==
    Then(qreg(M), LAMBDA M1 :
        [M1 EXCEPT !.t.qstack = Append(M1.t.qstack, RegVal(M1, M1.reg))])

\* a variant of the ] command that takes the oldest entry of the stack
PopOldest(M, c) ==
    LET col == colon(M)
        st == M.t.qstack
    IN  IF st # <<>>
        THEN Then(setqreg([M EXCEPT !.t.qstack = Tail(st)], st[1]),
                  LAMBDA M1 : IF col THEN setval(M1, -1) ELSE M1)
        ELSE IF col THEN Then(nextcmd(M), LAMBDA M1 : setval(M1, 0))
        ELSE Raise(M, "PES")

\* ] command -- pop the Q-register stack into the Q-register
cmd_char135(M, c) ==
    LET col == colon(M)
        st == M.t.qstack
    IN  IF st # <<>>
        THEN Then(setqreg([M EXCEPT !.t.qstack = SubSeq(st, 1, Len(st) - 1)], st[Len(st)]),
                  LAMBDA M1 : IF col THEN setval(M1, -1) ELSE M1)
        ELSE IF col THEN Then(nextcmd(M), LAMBDA M1 : setval(M1, 0))
        ELSE Raise(M, "PES")

----------------------------------------------------------------------------
(* The state machine *)

\* bounds of the exploration
MaxLines == 2
MaxDepth == 3
MaxText  == 10
MaxStack == 3

\* the working state becomes the next state.  A TECO error unwinds to
\* mainloop, which records it and prompts again; ExitExecution unwinds to
\* mainloop, which prompts again; SystemExit ends mainloop; ExitLevel ends
\* the run of the current level.
PopLevel(M) ==
    LET n == Len(M.lv)
    IN  [M EXCEPT !.lv = SubSeq(M.lv, 1, n - 1),
                  !.sc = IF M.lv[n].qregs # M.lv[n - 1].qregs
                         THEN SubSeq(M.sc, 1, Len(M.sc) - 1) ELSE M.sc]

\* the handler returns, or raises its error, to the loop of run
Committed(M) ==
    /\ teco' = M.t
    /\ buffer' = M.b
    /\ files' = M.fs
    /\ UNCHANGED <<linenum, reader, display>>
    /\ IF M.err # ""
       THEN /\ levels' = <<M.lv[1]>>
            /\ scopes' = <<M.sc[1]>>
            /\ mode' = "prompt"
            /\ preverror' = IF M.err = "PY" THEN "" ELSE M.err
       ELSE IF M.exit \in {"system", "execution"}
       THEN /\ levels' = <<M.lv[1]>>
            /\ scopes' = <<M.sc[1]>>
            /\ mode' = IF M.exit = "system" THEN "exited" ELSE "prompt"
            /\ UNCHANGED preverror
       ELSE IF M.exit = "level" /\ Len(M.lv) > 1
       THEN /\ levels' = PopLevel(M).lv
            /\ scopes' = PopLevel(M).sc
            /\ mode' = "run"
            /\ UNCHANGED preverror
       ELSE /\ levels' = M.lv
            /\ scopes' = M.sc
            /\ mode' = IF M.exit = "level" THEN "prompt" ELSE "run"
            /\ UNCHANGED preverror

\* a variant of Commit in which a macro level that ends empties the
\* Q-register stack
CommitReleasing(M) ==
    /\ teco' = IF M.err = "" /\ M.exit = "level" /\ Len(M.lv) > 1
               THEN [M.t EXCEPT !.qstack = <<>>] ELSE M.t
    /\ buffer' = M.b
    /\ files' = M.fs
    /\ UNCHANGED <<linenum, reader, display, searching>>
    /\ IF M.err # ""
       THEN /\ levels' = <<M.lv[1]>>
            /\ scopes' = <<M.sc[1]>>
            /\ mode' = "prompt"
            /\ preverror' = IF M.err = "PY" THEN "" ELSE M.err
       ELSE IF M.exit \in {"system", "execution"}
       THEN /\ levels' = <<M.lv[1]>>
            /\ scopes' = <<M.sc[1]>>
            /\ mode' = IF M.exit = "system" THEN "exited" ELSE "prompt"
            /\ UNCHANGED preverror
       ELSE IF M.exit = "level" /\ Len(M.lv) > 1
       THEN /\ levels' = PopLevel(M).lv
            /\ scopes' = PopLevel(M).sc
            /\ mode' = "run"
            /\ UNCHANGED preverror
       ELSE /\ levels' = M.lv
            /\ scopes' = M.sc
            /\ mode' = IF M.exit = "level" THEN "prompt" ELSE "run"
            /\ UNCHANGED preverror

Commit(M) == Committed(M) /\ UNCHANGED searching

\* the loop of command_level.run is at a command
Running ==
    /\ mode = "run"
    /\ cmdpos(Work) < Len(command(Work))
    /\ Len(buffer.text) <= MaxText
    /\ Len(teco.qstack) <= MaxStack

\* the command character, as do () sees it, and the one after it
C0 == lower(At(command(Work), cmdpos(Work)))
C1 == lower(At(command(Work), cmdpos(Work) + 1))

\* the working state after nextcmd (), and after the second nextcmd () of
\* the e, f and ^ methods
M0 == nextcmd(Work)
M00 == nextcmd(M0)

\* the command is one of S; the two-character command p followed by one of S;
\* the control character ch, as itself or in uparrow form
Is1(S) == Running /\ C0 \in S
Is2(p, S) == Running /\ C0 = p /\ C1 \in S
IsCtl(ch) ==
    /\ Running
    /\ \/ C0 = ch
       \/ C0 = "^" /\ C1 # "" /\ ~Failed(makecontrol(Work, C1)) /\ makecontrol(Work, C1).chr = ch
MC == IF C0 = "^" THEN M00 ELSE M0

\* e and f: error ILL of the two-character command becomes IEC, IFC
EWrap(M) == IF M.err = "ILL" THEN [M EXCEPT !.err = "IEC"] ELSE M
FWrap(M) == IF M.err = "ILL" THEN [M EXCEPT !.err = "IFC"] ELSE M

\* characters that name no method of command_level, alone, after e, after f
NoCommand  == {"$", "{", "}", "~"}
NoECommand == {"e", "l", "m", "q", "z", "1", "!", ESC}
NoFCommand == {"a", "d", "e", "f", "g", "x", "1", "!", ESC}

\* nop
do_nop == Is1({" ", LF, CR, FF}) /\ Commit(cmd_nop(M0, C0))

\* "
do_char042 == Is1({"\""}) /\ Commit(cmd_char042(M0, C0))

\* '
do_char047 == Is1({"'"}) /\ Commit(cmd_char047(M0, C0))

\* |
do_char174 == Is1({"|"}) /\ Commit(cmd_char174(M0, C0))

\* ^S
do_char023 == IsCtl(CTRLS) /\ Commit(cmd_char023(MC, CTRLS))

\* the backslash
do_char134 == Is1({BSL}) /\ Commit(cmd_char134(M0, C0))

\* !
do_char041 == Is1({"!"}) /\ Commit(cmd_char041(M0, C0))

\* ^A
do_char001 == IsCtl(CTRLA) /\ Commit(cmd_char001(MC, CTRLA))

\* ^N
do_char016 == IsCtl(CTRLN) /\ Commit(cmd_char016(MC, CTRLN))

\* what is typed at the terminal while one command runs
TerminalKeys == {"a", CTRLC, ESC}
MaxKeys == 2
TypedKeys == UNION {[1..k -> TerminalKeys] : k \in 0..MaxKeys}

\* the handler has read all that was typed, and waits for no more
ReadAll(M) == M.keys = <<>> /\ M.exit # "blocked"

\* ^T
do_char024 ==
    /\ IsCtl(CTRLT)
    /\ \E keys \in TypedKeys :
          /\ ReadAll(cmd_char024([MC EXCEPT !.keys = keys], CTRLT))
          /\ Commit(cmd_char024([MC EXCEPT !.keys = keys], CTRLT))

\* W
do_w ==
    /\ Is1({"w"})
    /\ \E keys \in TypedKeys :
          /\ ReadAll(cmd_w([M0 EXCEPT !.keys = keys], C0))
          /\ Commit(cmd_w([M0 EXCEPT !.keys = keys], C0))

\* ^C
do_char003 == IsCtl(CTRLC) /\ Commit(cmd_char003(MC, CTRLC))

\* tab
do_char011 == IsCtl(TAB) /\ Commit(cmd_char011(MC, TAB))

\* ^U
do_char025 == IsCtl(CTRLU) /\ Commit(cmd_char025(MC, CTRLU))

\* ESC
do_char033 == IsCtl(ESC) /\ Commit(cmd_char033(MC, ESC))

\* %
do_char045 == Is1({"%"}) /\ Commit(cmd_char045(M0, C0))

\* (
do_char050 == Is1({"("}) /\ Commit(cmd_char050(M0, C0))

\* )
do_char051 == Is1({")"}) /\ Commit(cmd_char051(M0, C0))

\* operators
do_operator == Is1({"+", "-", "*", "/", "&", "#"}) /\ Commit(cmd_operator(M0, C0))

\* ,
do_char054 == Is1({","}) /\ Commit(cmd_char054(M0, C0))

\* .
do_char056 == Is1({"."}) /\ Commit(cmd_char056(M0, C0))

\* digits
do_digit == Is1(DigitChars) /\ Commit(cmd_digit(M0, C0))

\* :
do_char072 == Is1({":"}) /\ Commit(cmd_char072(M0, C0))

\* ;
do_char073 == Is1({";"}) /\ Commit(cmd_char073(M0, C0))

\* <
do_char074 == Is1({"<"}) /\ Commit(cmd_char074(M0, C0))

\* >
do_char076 == Is1({">"}) /\ Commit(cmd_char076(M0, C0))

\* @
do_char100 == Is1({"@"}) /\ Commit(cmd_char100(M0, C0))

\* [
do_char133 == Is1({"["}) /\ Commit(cmd_char133(M0, C0))

\* ]
do_char135 == Is1({"]"}) /\ Commit(cmd_char135(M0, C0))

\* A
do_a == Is1({"a"}) /\ Commit(cmd_a(M0, C0))

\* B
do_b == Is1({"b"}) /\ Commit(cmd_b(M0, C0))

\* C
do_c == Is1({"c"}) /\ Commit(cmd_c(M0, C0))

\* D
do_d == Is1({"d"}) /\ Commit(cmd_d(M0, C0))

\* EB
do_eb == Is2("e", {"b"}) /\ Commit(EWrap(cmd_eb(M00, "eb")))

\* EC
do_ec == Is2("e", {"c"}) /\ Commit(EWrap(cmd_ec(M00, "ec")))

\* ED
do_ed == Is2("e", {"d"}) /\ Commit(EWrap(cmd_ed(M00, "ed")))

\* ET
do_et == Is2("e", {"t"}) /\ Commit(EWrap(cmd_et(M00, "et")))

\* EF
do_ef == Is2("e", {"f"}) /\ Commit(EWrap(cmd_ef(M00, "ef")))

\* EK
do_ek == Is2("e", {"k"}) /\ Commit(EWrap(cmd_ek(M00, "ek")))

\* ER
do_er == Is2("e", {"r"}) /\ Commit(EWrap(cmd_er(M00, "er")))

\* EW
do_ew == Is2("e", {"w"}) /\ Commit(EWrap(cmd_ew(M00, "ew")))

\* EX
do_ex == Is2("e", {"x"}) /\ Commit(EWrap(cmd_ex(M00, "ex")))

\* EY
do_ey == Is2("e", {"y"}) /\ Commit(EWrap(cmd_ey(M00, "ey")))

\* E_
do_echar137 == Is2("e", {"_"}) /\ Commit(EWrap(cmd_s(M00, "e_")))

\* FB
do_fb == Is2("f", {"b"}) /\ Commit(FWrap(cmd_fb(M00, "fb")))

\* FC
do_fc == Is2("f", {"c"}) /\ Commit(FWrap(cmd_fc(M00, "fc")))

\* FR
do_fr == Is2("f", {"r"}) /\ Commit(FWrap(cmd_fr(M00, "fr")))

\* FS, FN, F_
do_fs == Is2("f", {"s", "n", "_"}) /\ Commit(FWrap(cmd_fs(M00, IF C1 = "s" THEN "fs" ELSE IF C1 = "n" THEN "fn" ELSE "f_")))

\* G
do_g == Is1({"g"}) /\ Commit(cmd_g(M0, C0))

\* I
do_i == Is1({"i"}) /\ Commit(cmd_i(M0, C0))

\* J
do_j == Is1({"j"}) /\ Commit(cmd_j(M0, C0))

\* L
do_l == Is1({"l"}) /\ Commit(cmd_l(M0, C0))

\* M
do_m == Is1({"m"}) /\ Len(levels) < MaxDepth /\ Commit(cmd_m(M0, C0))

\* P, PW
do_p == Is1({"p"}) /\ Commit(cmd_p(M0, C0))

\* Q
do_q == Is1({"q"}) /\ Commit(cmd_q(M0, C0))

\* R
do_r == Is1({"r"}) /\ Commit(cmd_r(M0, C0))

\* S, N, _
do_s == Is1({"s", "n", "_"}) /\ Commit(cmd_s(M0, C0))

\* U
do_u == Is1({"u"}) /\ Commit(cmd_u(M0, C0))

\* Y
do_y == Is1({"y"}) /\ Commit(cmd_y(M0, C0))

\* Z
do_z == Is1({"z"}) /\ Commit(cmd_z(M0, C0))

\* ^D
do_char004 == IsCtl(CTRLD) /\ Commit(cmd_char004(MC, CTRLD))

\* ^E
do_char005 == IsCtl(CTRLE) /\ Commit(cmd_char005(MC, CTRLE))

\* ^O
do_char017 == IsCtl(CTRLO) /\ Commit(cmd_char017(MC, CTRLO))

\* ^R
do_char022 == IsCtl(CTRLR) /\ Commit(cmd_char022(MC, CTRLR))

\* F'
do_fchar047 == Is2("f", {"'"}) /\ Commit(FWrap(cmd_fchar047(M00, "f'")))

\* F<
do_fchar074 == Is2("f", {"<"}) /\ Commit(FWrap(cmd_fchar074(M00, "f<")))

\* F>
do_fchar076 == Is2("f", {">"}) /\ Commit(FWrap(cmd_fchar076(M00, "f>")))

\* O
do_o == Is1({"o"}) /\ Commit(cmd_o(M0, C0))

\* do (c) finds no method, or e, f, ^ lack their second character, or the
\* character after ^ has no control character
do_ILL ==
    /\ Running
    /\ \/ C0 \in NoCommand /\ Commit(Raise(M0, "ILL"))
       \/ C0 = "e" /\ C1 \in NoECommand /\ Commit(Raise(M00, "IEC"))
       \/ C0 = "f" /\ C1 \in NoFCommand /\ Commit(Raise(M00, "IFC"))
       \/ C0 \in {"e", "f", "^"} /\ C1 = "" /\ Commit(M00)
       \/ C0 = "^" /\ C1 # "" /\ Failed(makecontrol(M00, C1)) /\ Commit(makecontrol(M00, C1))

\* run: the command string is exhausted; a macro level returns to the M
\* command that started it, the interactive level returns to mainloop
run_return ==
    /\ mode = "run"
    /\ cmdpos(Work) >= Len(command(Work))
    /\ Commit([Work EXCEPT !.exit = "level"])

----------------------------------------------------------------------------
(* Command lines.  Each is what teco_cmdstring returns for a line typed at   *)
(* the terminal: the text up to and including the double escape.  In the   *)
(* comments $ is escape.                                                   *)

\* Iabcabc$ J <Sb$ ;>$$
Scenario3 == <<"I", "a", "b", "c", "a", "b", "c", ESC, " ", "J", " ", "<", "S", "b", ESC, " ", ";", ">", ESC, ESC>>

\* Iabcabc$J<Sb$;>$$
Scenario3Compact == <<"I", "a", "b", "c", "a", "b", "c", ESC, "J", "<", "S", "b", ESC, ";", ">", ESC, ESC>>

\* 5Ub@^Ua/[b/Ma0Ub]c$$
MacroPush == <<"5", "U", "b", "@", "^", "U", "a", "/", "[", "b", "/", "M", "a", "0", "U", "b", "]", "c", ESC, ESC>>

\* @^U1/hello/ Q1"E @I/empty/' Q1"N @I/full/'$$
Scenario6 == <<"@", "^", "U", "1", "/", "h", "e", "l", "l", "o", "/", " ", "Q", "1", "\"", "E", " ", "@", "I", "/", "e", "m", "p", "t", "y", "/", "'", " ", "Q", "1", "\"", "N", " ", "@", "I", "/", "f", "u", "l", "l", "/", "'", ESC, ESC>>

\* Ifoobar$ J @FS/foo/baz/$$
Scenario7 == <<"I", "f", "o", "o", "b", "a", "r", ESC, " ", "J", " ", "@", "F", "S", "/", "f", "o", "o", "/", "b", "a", "z", "/", ESC, ESC>>

\* 10<I*$>$$
Scenario8 == <<"1", "0", "<", "I", "*", ESC, ">", ESC, ESC>>

\* @^Ua!1,(2+3:Sx$!Ma$$
ErrorInMacro == <<"@", "^", "U", "a", "!", "1", ",", "(", "2", "+", "3", ":", "S", "x", ESC, "!", "M", "a", ESC, ESC>>

\* Ixy$J5Ua3U.b[a1EDSy$MzIc$$
EmptyMacro == <<"I", "x", "y", ESC, "J", "5", "U", "a", "3", "U", ".", "b", "[", "a", "1", "E", "D", "S", "y", ESC, "M", "z", "I", "c", ESC, ESC>>

\* ERf$EWo$YY$$
YankRefused == <<"E", "R", "f", ESC, "E", "W", "o", ESC, "Y", "Y", ESC, ESC>>

\* 65536ED$$
FlagBeyondWord == <<"6", "5", "5", "3", "6", "E", "D", ESC, ESC>>

\* 32768ET256:W$$
TrapInWatch == <<"3", "2", "7", "6", "8", "E", "T", "2", "5", "6", ":", "W", ESC, ESC>>

\* 32768ET<^T>Ua$$
TrapInType == <<"3", "2", "7", "6", "8", "E", "T", CTRLT, "U", "a", ESC, ESC>>

\* Iaaa$-4Sa$$
ReverseBeyondCount == <<"I", "a", "a", "a", ESC, "-", "4", "S", "a", ESC, ESC>>

\* Iabc$JSbc$<^S>Ua$$
SearchAfterInsert == <<"I", "a", "b", "c", ESC, "J", "S", "b", "c", ESC, CTRLS, "U", "a", ESC, ESC>>

\* the lines typed first
Programs == {
    Scenario3,
    Scenario3Compact,
    MacroPush,
    Scenario6,
    Scenario7,
    Scenario8,
    ErrorInMacro,
    EmptyMacro,
    YankRefused,
    FlagBeyondWord,
    TrapInWatch,
    TrapInType,
    ReverseBeyondCount,
    SearchAfterInsert,
    <<"I", "a", "b", ESC, "Y", ESC, ESC>>,  \* Iab$Y$$
    <<"I", "a", "b", ESC, "E", "Y", ESC, ESC>>,  \* Iab$EY$$
    <<"E", "W", "o", ESC, "I", "a", "b", ESC, "E", "C", ESC, ESC>>,  \* EWo$Iab$EC$$
    <<"E", "R", "f", ESC, "Y", ESC, ESC>>,  \* ERf$Y$$
    <<"E", "R", "f", ESC, "E", "W", "o", ESC, "Y", "E", "C", ESC, ESC>>,  \* ERf$EWo$YEC$$
    <<"E", "R", "f", ESC, "A", ":", "A", ESC, ESC>>,  \* ERf$A:A$$
    <<"E", "W", "o", ESC, "I", "a", "b", ESC, "E", "F", ESC, ESC>>,  \* EWo$Iab$EF$$
    <<"E", "R", "f", ESC, "E", "W", "o", ESC, "Y", ":", "E", "W", ESC, ESC>>,  \* ERf$EWo$Y:EW$$
    <<"E", "R", "f", ESC, "E", "W", "o", ESC, "<", "P", "^", "N", ":", ";", ">", "E", "F", ESC, ESC>>,  \* ERf$EWo$<P^N:;>EF$$
    <<"E", "R", "g", ESC, "E", "W", "o", ESC, "<", "P", "^", "N", ":", ";", ">", "E", "F", ESC, ESC>>,  \* ERg$EWo$<P^N:;>EF$$
    <<"E", "R", "f", ESC, "E", "W", "o", ESC, "<", "P", "^", "N", ":", ";", ">", "E", "C", ESC, ESC>>,  \* ERf$EWo$<P^N:;>EC$$
    <<"E", "R", "g", ESC, "E", "W", "o", ESC, "<", "P", "^", "N", ":", ";", ">", "E", "C", ESC, ESC>>,  \* ERg$EWo$<P^N:;>EC$$
    <<"E", "R", "h", ESC, "E", "W", "o", ESC, "<", "P", "^", "N", ":", ";", ">", "E", "C", ESC, ESC>>,  \* ERh$EWo$<P^N:;>EC$$
    <<"E", "R", "e", ESC, "E", "W", "o", ESC, "<", "P", "^", "N", ":", ";", ">", "E", "C", ESC, ESC>>,  \* ERe$EWo$<P^N:;>EC$$
    <<"E", "R", "k", ESC, "E", "W", "o", ESC, "<", "P", "^", "N", ":", ";", ">", "E", "C", ESC, ESC>>,  \* ERk$EWo$<P^N:;>EC$$
    <<"E", "R", "f", ESC, "E", "W", "o", ESC, "2", "P", "E", "F", ESC, ESC>>,  \* ERf$EWo$2PEF$$
    <<"E", "R", "f", ESC, "E", "W", "o", ESC, "Y", ":", "P", "^", "N", "P", "W", "1", ",", "2", "P", "W", "0", "P", ESC, ESC>>,  \* ERf$EWo$Y:P^NPW1,2PW0P$$
    <<"E", "R", "f", ESC, "Y", CTRLN, "U", "a", "P", ESC, ESC>>,  \* ERf$Y<^N>UaP$$
    <<"E", "R", "f", ESC, "E", "W", "o", ESC, "Y", "2", "P", "W", "0", "P", "W", ESC, ESC>>,  \* ERf$EWo$Y2PW0PW$$
    <<"E", "W", "o", ESC, "I", "a", "b", ESC, "^", "C", ESC, ESC>>,  \* EWo$Iab$^C$$
    <<"E", "W", "o", ESC, "I", "a", "b", ESC, CTRLC, ESC, ESC>>,  \* EWo$Iab$<^C>$$
    <<"E", "W", "o", ESC, "I", "a", "b", ESC, "E", "X", ESC, ESC>>,  \* EWo$Iab$EX$$
    <<"E", "W", "o", ESC, "@", "^", "U", "a", "/", "^", "C", "/", "M", "a", "I", "x", ESC, ESC>>,  \* EWo$@^Ua/^C/MaIx$$
    <<"E", "W", "o", ESC, "@", "^", "U", "a", "/", "E", "X", "/", "M", "a", "I", "x", ESC, ESC>>,  \* EWo$@^Ua/EX/MaIx$$
    <<"E", "B", "f", ESC, "Y", "E", "K", ESC, ESC>>,  \* EBf$YEK$$
    <<"E", "B", "f", ESC, "Y", "E", "C", ESC, ESC>>,  \* EBf$YEC$$
    <<"E", "B", "f", ESC, "Y", "^", "C", ESC, ESC>>,  \* EBf$Y^C$$
    <<"E", "B", "f", ESC, "E", "W", "o", ESC, ESC>>,  \* EBf$EWo$$
    <<"E", "W", "o", ESC, "E", "B", "f", ESC, ESC>>,  \* EWo$EBf$$
    <<":", "E", "B", "q", ESC, "U", "a", "E", "K", ESC, ESC>>,  \* :EBq$UaEK$$
    <<"E", "B", "f", ESC, "Y", "E", "F", ESC, ESC>>,  \* EBf$YEF$$
    <<"I", "a", "b", ESC, "E", "X", ESC, ESC>>,  \* Iab$EX$$
    <<"E", "X", ESC, ESC>>,  \* EX$$
    <<"E", "B", "f", ESC, "E", "X", ESC, ESC>>,  \* EBf$EX$$
    <<"E", "W", "o", ESC, "S", "x", ESC, ESC>>,  \* EWo$Sx$$
    <<"E", "R", "f", ESC, "E", "W", "o", ESC, "Y", "E", "F", "Y", ESC, ESC>>,  \* ERf$EWo$YEFY$$
    <<"E", "R", "f", ESC, "E", "W", "o", ESC, "Y", "E", "F", "A", ESC, ESC>>,  \* ERf$EWo$YEFA$$
    <<"E", "R", "f", ESC, "Y", "E", "F", "Y", ESC, ESC>>,  \* ERf$YEFY$$
    <<"E", "R", "f", ESC, "E", "W", "o", ESC, "E", "F", ":", "A", ESC, ESC>>,  \* ERf$EWo$EF:A$$
    <<"I", "a", "b", ESC, "5", "J", ESC, ESC>>,  \* Iab$5J$$
    <<"I", "a", "b", ESC, "-", "1", "J", ESC, ESC>>,  \* Iab$-1J$$
    <<"I", "a", "b", ESC, "1", "J", ESC, ESC>>,  \* Iab$1J$$
    <<"I", "a", "b", ESC, "3", "R", ESC, ESC>>,  \* Iab$3R$$
    <<"I", "a", "b", ESC, "2", "R", ESC, ESC>>,  \* Iab$2R$$
    <<"I", "a", "b", ESC, "J", "-", "R", ESC, ESC>>,  \* Iab$J-R$$
    <<"I", "a", "b", ESC, "-", "3", "C", ESC, ESC>>,  \* Iab$-3C$$
    <<"I", "a", "b", ESC, "-", "C", ESC, ESC>>,  \* Iab$-C$$
    <<"I", "a", "b", ESC, "J", "2", "C", ESC, ESC>>,  \* Iab$J2C$$
    <<"1", ",", "(", "2", "+", ":", "{", ESC, ESC>>,  \* 1,(2+:{$$
    <<"@", "^", "U", "a", "!", "@", "^", "U", "b", "/", "1", ",", "(", "2", "+", ":", "@", "S", "x", "/", "M", "b", "!", "M", "a", ESC, ESC>>,  \* @^Ua!@^Ub/1,(2+:@Sx/Mb!Ma$$
    <<"1", ",", "2", "+", ":", "@", "Q", ESC, ESC>>,  \* 1,2+:@Q$$
    <<"(", "1", "+", "2", ")", "+", "(", "3", ":", "E", ESC, ESC>>,  \* (1+2)+(3:E$$
    <<"1", ",", "2", ":", "@", "^", "U", "a", "!", "3", "+", "^", "C", "!", "M", "a", ESC, ESC>>,  \* 1,2:@^Ua!3+^C!Ma$$
    <<"I", "a", "b", ESC, "^", "S", "U", "a", ESC, ESC>>,  \* Iab$^SUa$$
    <<"5", BSL, "^", "S", "U", "a", ESC, ESC>>,  \* 5\^SUa$$
    <<"-", "1", "2", BSL, ESC, ESC>>,  \* -12\$$
    <<"I", "a", "b", ESC, "J", ":", "S", "b", ESC, "^", "S", "U", "a", ESC, ESC>>,  \* Iab$J:Sb$^SUa$$
    <<"I", "a", "b", ESC, "J", "@", "F", "S", "/", "a", "/", "x", "y", "z", "/", "^", "S", "U", "a", ESC, ESC>>,  \* Iab$J@FS/a/xyz/^SUa$$
    <<"@", "^", "U", "a", "/", "x", "y", "z", "/", "G", "a", "^", "S", "U", "b", ESC, ESC>>,  \* @^Ua/xyz/Ga^SUb$$
    <<TAB, "a", "b", ESC, "^", "S", "U", "a", ESC, ESC>>,  \* <TAB>ab$^SUa$$
    <<"6", "5", "I", ESC, "^", "S", "U", "a", ESC, ESC>>,  \* 65I$^SUa$$
    <<"I", "1", "2", "a", ESC, "J", BSL, "U", "a", ESC, ESC>>,  \* I12a$J\Ua$$
    <<"I", "-", "7", ESC, "J", BSL, "U", "a", ESC, ESC>>,  \* I-7$J\Ua$$
    <<"I", "x", ESC, "J", BSL, ESC, ESC>>,  \* Ix$J\$$
    <<"I", "a", "b", "c", ESC, "J", "@", "F", "N", "/", "b", "/", "x", "y", "/", ESC, ESC>>,  \* Iabc$J@FN/b/xy/$$
    <<"I", "a", "b", ESC, "0", ",", "2", "@", "F", "C", "/", "b", "/", "x", "y", "z", "/", "^", "S", "U", "a", ESC, ESC>>,  \* Iab$0,2@FC/b/xyz/^SUa$$
    <<"I", "a", "b", ESC, "@", "F", "R", "/", "x", "y", "z", "/", ESC, ESC>>,  \* Iab$@FR/xyz/$$
    <<"I", "a", "b", ESC, "J", "S", "b", ESC, "@", "F", "R", "/", "/", ESC, ESC>>,  \* Iab$JSb$@FR//$$
    <<"I", "a", "b", ESC, "I", ESC, "^", "S", "U", "a", ESC, ESC>>,  \* Iab$I$^SUa$$
    <<"I", "a", "b", ESC, "J", "S", "b", ESC, ":", "S", "x", ESC, "^", "S", "U", "a", ESC, ESC>>,  \* Iab$JSb$:Sx$^SUa$$
    <<"0", "<", "I", "*", ESC, ">", "I", "x", ESC, ESC>>,  \* 0<I*$>Ix$$
    <<"-", "1", "<", "I", "*", ESC, ">", "I", "x", ESC, ESC>>,  \* -1<I*$>Ix$$
    <<"0", "<", TAB, "a", ">", "b", ESC, ">", "I", "x", ESC, ESC>>,  \* 0<<TAB>a>b$>Ix$$
    <<"2", "<", TAB, "a", ">", "b", ESC, ">", ESC, ESC>>,  \* 2<<TAB>a>b$>$$
    <<"3", "<", "I", "*", ESC, ">", "I", "x", ESC, ESC>>,  \* 3<I*$>Ix$$
    <<"2", "<", "2", "<", "I", "a", ESC, ">", "I", "b", ESC, ">", ESC, ESC>>,  \* 2<2<Ia$>Ib$>$$
    <<"1", "<", "I", "a", ESC, ">", "I", "b", ESC, ESC>>,  \* 1<Ia$>Ib$$
    <<"<", "I", "a", ESC, "0", ";", "<", "I", "b", ESC, ">", ">", "I", "x", ESC, ESC>>,  \* <Ia$0;<Ib$>>Ix$$
    <<"<", "I", "a", ESC, "-", "1", ":", ";", "<", "I", "b", ESC, ">", ">", "I", "x", ESC, ESC>>,  \* <Ia$-1:;<Ib$>>Ix$$
    <<"2", "<", "I", "a", ESC, "-", "1", ";", ">", ESC, ESC>>,  \* 2<Ia$-1;>$$
    <<"2", "<", "I", "a", ESC, "0", ":", ";", ">", ESC, ESC>>,  \* 2<Ia$0:;>$$
    <<"2", "<", "<", "0", ";", ">", "I", "a", ESC, ">", ESC, ESC>>,  \* 2<<0;>Ia$>$$
    <<"0", ";", ESC, ESC>>,  \* 0;$$
    <<"<", ";", ">", ESC, ESC>>,  \* <;>$$
    <<"<", "I", "a", ESC, "1", ";", ESC, ESC>>,  \* <Ia$1;$$
    <<"2", "<", "I", "a", ESC, "<", "1", ";", "I", "b", ESC, ">", "I", "c", ESC, ">", ESC, ESC>>,  \* 2<Ia$<1;Ib$>Ic$>$$
    <<"1", "\"", "E", " ", "I", "a", ESC, " ", "|", " ", "I", "b", ESC, " ", "'", ESC, ESC>>,  \* 1"E Ia$ | Ib$ '$$
    <<"0", "\"", "E", " ", "I", "a", ESC, " ", "|", " ", "I", "b", ESC, " ", "'", " ", "I", "c", ESC, ESC>>,  \* 0"E Ia$ | Ib$ ' Ic$$
    <<"0", "\"", "N", " ", "I", "a", ESC, " ", "'", " ", "I", "c", ESC, ESC>>,  \* 0"N Ia$ ' Ic$$
    <<"\"", "E", ESC, ESC>>,  \* "E$$
    <<"1", "\"", "Z", ESC, ESC>>,  \* 1"Z$$
    <<"0", "\"", "N", "<", "I", "a", ESC, "'", ">", "I", "b", ESC, ESC>>,  \* 0"N<Ia$'>Ib$$
    <<"0", "\"", "N", " ", "1", "\"", "E", " ", "I", "a", ESC, " ", "'", " ", "I", "b", ESC, " ", "'", " ", "I", "c", ESC, ESC>>,  \* 0"N 1"E Ia$ ' Ib$ ' Ic$$
    <<"0", "\"", "N", "I", "a", ">", ESC, ESC>>,  \* 0"NIa>$$
    <<"0", "\"", "N", " ", ">", ESC, ESC>>,  \* 0"N >$$
    <<"0", "\"", "N", ESC, ESC>>,  \* 0"N$$
    <<"6", "5", "\"", "A", " ", "I", "a", ESC, " ", "'", ESC, ESC>>,  \* 65"A Ia$ '$$
    <<"-", "1", "\"", "C", " ", "I", "a", ESC, "'", ESC, ESC>>,  \* -1"C Ia$'$$
    <<"4", "8", "\"", "D", " ", "I", "x", ESC, "'", ESC, ESC>>,  \* 48"D Ix$'$$
    <<"9", "7", "\"", "V", " ", "I", "x", ESC, "'", ESC, ESC>>,  \* 97"V Ix$'$$
    <<"6", "5", "\"", "W", " ", "I", "x", ESC, "'", ESC, ESC>>,  \* 65"W Ix$'$$
    <<"1", "\"", "G", " ", "I", "x", ESC, "'", ESC, ESC>>,  \* 1"G Ix$'$$
    <<"-", "1", "\"", "L", " ", "I", "x", ESC, "'", ESC, ESC>>,  \* -1"L Ix$'$$
    <<"4", "8", "\"", "R", " ", "I", "x", ESC, "'", ESC, ESC>>,  \* 48"R Ix$'$$
    <<"1", "\"", ESC, ESC>>,  \* 1"$$
    <<"1", "\"", "F", " ", "I", "a", ESC, " ", "|", " ", "I", "b", ESC, " ", "'", ESC, ESC>>,  \* 1"F Ia$ | Ib$ '$$
    <<"0", "\"", "=", " ", "I", "a", ESC, " ", "'", ESC, ESC>>,  \* 0"= Ia$ '$$
    <<"I", "f", "o", "o", "b", "a", "r", ESC, "J", "F", "S", "f", "o", "o", ESC, "b", "a", "z", ESC, ESC>>,  \* Ifoobar$JFSfoo$baz$$
    <<"I", "a", "b", "a", "b", ESC, "J", "2", "@", "F", "S", "/", "b", "/", "x", "y", "/", ESC, ESC>>,  \* Iabab$J2@FS/b/xy/$$
    <<"I", "a", "b", "a", "b", ESC, "-", "@", "F", "S", "/", "a", "/", "x", "y", "z", "/", ESC, ESC>>,  \* Iabab$-@FS/a/xyz/$$
    <<"I", "a", "b", ESC, "J", ":", "@", "F", "S", "/", "b", "/", "x", "/", ESC, ESC>>,  \* Iab$J:@FS/b/x/$$
    <<"I", "a", "b", ESC, "J", "@", "F", "S", "/", "a", "/", "/", ESC, ESC>>,  \* Iab$J@FS/a//$$
    <<"I", "a", "b", ESC, "J", "<", "@", "F", "S", "/", "b", "/", "x", "/", ">", ESC, ESC>>,  \* Iab$J<@FS/b/x/>$$
    <<"I", "a", "b", ESC, "J", ":", "@", "F", "S", "/", "x", "/", "y", "/", ESC, ESC>>,  \* Iab$J:@FS/x/y/$$
    <<"I", "a", "b", ESC, "J", "@", "F", "S", "/", "B", "/", "x", "/", ESC, ESC>>,  \* Iab$J@FS/B/x/$$
    <<"<", "0", ";", TAB, "a", ">", "b", ESC, ">", "I", "x", ESC, ESC>>,  \* <0;<TAB>a>b$>Ix$$
    <<"<", "0", ";", "^", "U", "a", ">", ESC, ">", "I", "x", ESC, ESC>>,  \* <0;^Ua>$>Ix$$
    <<"<", "0", ";", "I", ">", ESC, ">", "I", "x", ESC, ESC>>,  \* <0;I>$>Ix$$
    <<"0", "<", "I", ">", ESC, ">", "I", "x", ESC, ESC>>,  \* 0<I>$>Ix$$
    <<"<", "0", ";", "@", "I", "/", ">", "/", ">", "I", "x", ESC, ESC>>,  \* <0;@I/>/>Ix$$
    <<"<", "0", ";", "@", "^", "U", "a", "/", ">", "/", ">", "I", "x", ESC, ESC>>,  \* <0;@^Ua/>/>Ix$$
    <<"<", "0", ";", "S", "a", ">", ESC, ">", "I", "x", ESC, ESC>>,  \* <0;Sa>$>Ix$$
    <<"<", "0", ";", "@", "F", "S", "/", ">", "/", "<", "/", ">", "I", "x", ESC, ESC>>,  \* <0;@FS/>/</>Ix$$
    <<"<", "0", ";", "!", ">", "!", ">", "I", "x", ESC, ESC>>,  \* <0;!>!>Ix$$
    <<"<", "0", ";", "^", "A", ">", CTRLA, ">", "I", "x", ESC, ESC>>,  \* <0;^A><^A>>Ix$$
    <<"<", "0", ";", "<", "I", "a", ESC, ">", ">", "I", "x", ESC, ESC>>,  \* <0;<Ia$>>Ix$$
    <<"2", "<", "I", "a", ESC, ">", ESC, ESC>>,  \* 2<Ia$>$$
    <<"I", "a", "b", "a", "b", ESC, "J", "2", "S", "b", ESC, ESC>>,  \* Iabab$J2Sb$$
    <<"I", "a", "b", ESC, "J", "2", "S", "b", ESC, ESC>>,  \* Iab$J2Sb$$
    <<"I", "a", "b", "a", "b", ESC, "J", "S", "b", ESC, ESC>>,  \* Iabab$JSb$$
    <<"I", "a", "b", "a", "b", ESC, "-", "S", "b", ESC, ESC>>,  \* Iabab$-Sb$$
    <<"I", "a", "b", "a", "b", ESC, "-", "2", "S", "b", ESC, ESC>>,  \* Iabab$-2Sb$$
    <<"I", "a", "b", ESC, "J", ":", "S", "b", ESC, ESC>>,  \* Iab$J:Sb$$
    <<"I", "a", "b", ESC, ":", "S", "x", ESC, ESC>>,  \* Iab$:Sx$$
    <<"I", "a", "b", ESC, "S", "x", ESC, ESC>>,  \* Iab$Sx$$
    <<"I", "a", "b", ESC, "1", "6", "E", "D", "S", "x", ESC, ESC>>,  \* Iab$16EDSx$$
    <<"I", "a", "b", ESC, ":", ":", "S", "x", ESC, ESC>>,  \* Iab$::Sx$$
    <<"I", "a", "b", ESC, "0", ",", "1", "S", "x", ESC, ESC>>,  \* Iab$0,1Sx$$
    <<"I", "a", "b", ESC, "1", ",", "1", "S", "x", ESC, ESC>>,  \* Iab$1,1Sx$$
    <<"I", "a", "b", ESC, "@", "F", "S", "/", "x", "/", "y", "/", ESC, ESC>>,  \* Iab$@FS/x/y/$$
    <<"I", "a", "b", ESC, "J", "@", "F", "S", "/", "a", "/", "x", "y", "/", ESC, ESC>>,  \* Iab$J@FS/a/xy/$$
    <<"I", "a", "b", ESC, "1", ":", "F", "B", "x", ESC, ESC>>,  \* Iab$1:FBx$$
    <<"I", "a", "b", ESC, "-", "1", "F", "B", "b", ESC, ESC>>,  \* Iab$-1FBb$$
    <<"I", "a", "b", ESC, "0", ",", "2", "F", "B", "b", ESC, ESC>>,  \* Iab$0,2FBb$$
    <<"I", "a", "b", ESC, "1", ":", "@", "F", "C", "/", "x", "/", "y", "/", ESC, ESC>>,  \* Iab$1:@FC/x/y/$$
    <<"I", "a", "b", ESC, "0", ",", "2", "@", "F", "C", "/", "b", "/", "x", "/", ESC, ESC>>,  \* Iab$0,2@FC/b/x/$$
    <<"I", "a", "b", ESC, "@", "F", "R", "/", "x", "/", ESC, ESC>>,  \* Iab$@FR/x/$$
    <<"I", "a", "b", ESC, ":", "N", "x", ESC, ESC>>,  \* Iab$:Nx$$
    <<"I", "a", "b", ESC, "_", "x", ESC, ESC>>,  \* Iab$_x$$
    <<"E", "R", "f", ESC, "Y", ":", "_", "x", ESC, ESC>>,  \* ERf$Y:_x$$
    <<"E", "R", "f", ESC, "E", "W", "o", ESC, "Y", ":", "N", "x", ESC, ESC>>,  \* ERf$EWo$Y:Nx$$
    <<"E", "R", "f", ESC, "Y", ":", "N", "x", ESC, ESC>>,  \* ERf$Y:Nx$$
    <<"E", "R", "f", ESC, "Y", ":", "E", "_", "x", ESC, ESC>>,  \* ERf$Y:E_x$$
    <<"E", "R", "f", ESC, "Y", "_", "c", ESC, ESC>>,  \* ERf$Y_c$$
    <<"E", "R", "f", ESC, "Y", "@", "F", "_", "/", "c", "/", "x", "/", ESC, ESC>>,  \* ERf$Y@F_/c/x/$$
    <<"I", "a", ESC, "J", "<", "S", "b", ESC, TAB, ">", ESC, ">", "I", "z", ESC, ESC>>,  \* Ia$J<Sb$<TAB>>$>Iz$$
    <<"I", "a", "b", ESC, "J", "<", "S", "b", ESC, ">", "I", "z", ESC, ESC>>,  \* Iab$J<Sb$>Iz$$
    <<"I", "a", "b", ESC, "J", "<", "S", "b", ESC, "J", ">", ESC, ESC>>,  \* Iab$J<Sb$J>$$
    <<"I", "a", "b", ESC, "J", "<", "S", "x", ESC, ESC>>,  \* Iab$J<Sx$$
    <<"I", "a", "b", ESC, "J", "<", ":", "S", "b", ESC, ";", ">", ESC, ESC>>,  \* Iab$J<:Sb$;>$$
    <<"I", "a", "b", ESC, "<", "-", "1", ";", "C", ">", ESC, ESC>>,  \* Iab$<-1;C>$$
    <<";", ESC, ESC>>,  \* ;$$
    <<"@", "^", "U", "a", "/", "1", "U", ".", "x", "/", "M", "a", "Q", ".", "x", ESC, ESC>>,  \* @^Ua/1U.x/MaQ.x$$
    <<"1", "U", ".", "x", "@", "^", "U", "a", "/", "2", "U", ".", "x", "/", ":", "M", "a", "Q", ".", "x", ESC, ESC>>,  \* 1U.x@^Ua/2U.x/:MaQ.x$$
    <<"@", "^", "U", "a", "/", "1", "U", ".", "x", "/", "M", "a", ESC, ESC>>,  \* @^Ua/1U.x/Ma$$
    <<"2", "U", ".", "y", "@", "^", "U", "a", "/", "1", "U", ".", "x", "/", "M", "a", ESC, ESC>>,  \* 2U.y@^Ua/1U.x/Ma$$
    <<"@", "^", "U", "a", "/", "1", "U", ".", "x", "/", ":", "M", "a", ESC, ESC>>,  \* @^Ua/1U.x/:Ma$$
    <<"2", "U", ".", "y", "@", "^", "U", "a", "/", "1", "U", ".", "x", "/", ":", "M", "a", ESC, ESC>>,  \* 2U.y@^Ua/1U.x/:Ma$$
    <<"2", "U", ".", "y", "@", "^", "U", "a", "/", "Q", ".", "y", "U", "b", "/", "M", "a", "Q", "b", ESC, ESC>>,  \* 2U.y@^Ua/Q.yUb/MaQb$$
    <<"@", "^", "U", "a", "/", "I", "x", ESC, "/", ":", "@", "^", "U", "a", "/", ESC, "I", "y", "/", "M", "a", "G", "a", ESC, ESC>>,  \* @^Ua/Ix$/:@^Ua/$Iy/MaGa$$
    <<"@", "^", "U", "a", "/", "x", "/", ":", "@", "^", "U", "a", "/", "y", "/", ":", "G", "a", ESC, ESC>>,  \* @^Ua/x/:@^Ua/y/:Ga$$
    <<"%", "a", "%", "a", "2", "%", "a", ESC, ESC>>,  \* %a%a2%a$$
    <<"1", "U", "a", "@", "^", "U", "a", "/", "x", "/", "[", "a", "2", "U", "a", "@", "^", "U", "a", "/", "y", "/", "]", "b", ESC, ESC>>,  \* 1Ua@^Ua/x/[a2Ua@^Ua/y/]b$$
    <<"1", "U", "a", "[", "a", "2", "U", "a", "[", "a", "]", "b", "]", "c", ESC, ESC>>,  \* 1Ua[a2Ua[a]b]c$$
    <<"1", "U", "a", "[", "a", "[", "b", "]", "a", ESC, ESC>>,  \* 1Ua[a[b]a$$
    <<"[", "a", "]", ".", "b", ESC, ESC>>,  \* [a].b$$
    <<"[", "a", "]", "*", ESC, ESC>>,  \* [a]*$$
    <<"[", "a", "@", "^", "U", "b", "/", "]", "/", "M", "b", ESC, ESC>>,  \* [a@^Ub/]/Mb$$
    <<"1", "U", "a", "[", "a", "2", "U", "a", "[", "a", "]", "*", ESC, ESC>>,  \* 1Ua[a2Ua[a]*$$
    <<"]", "a", ESC, ESC>>,  \* ]a$$
    <<":", "]", "a", ESC, ESC>>,  \* :]a$$
    <<"[", "a", ":", "]", "b", ESC, ESC>>,  \* [a:]b$$
    <<"1", "U", ".", "a", ":", "]", ".", "a", ESC, ESC>>,  \* 1U.a:].a$$
    <<"1", "U", "a", ":", "]", ".", "u", "a", ESC, ESC>>,  \* 1Ua:].ua$$
    <<"@", "^", "U", "a", "/", ":", "]", "b", "/", "M", "a", ESC, ESC>>,  \* @^Ua/:]b/Ma$$
    <<"@", "^", "U", "a", "/", "[", "b", "/", "M", "a", "]", "c", ESC, ESC>>,  \* @^Ua/[b/Ma]c$$
    <<"@", "^", "U", "a", "/", "[", "b", "]", "c", "/", "M", "a", ESC, ESC>>,  \* @^Ua/[b]c/Ma$$
    <<"@", "^", "U", "a", "/", "M", "a", "/", "M", "a", ESC, ESC>>,  \* @^Ua/Ma/Ma$$
    <<"E", "R", "f", ESC, "E", "W", "o", ESC, "Y", "2", "E", "D", "Y", ESC, ESC>>,  \* ERf$EWo$Y2EDY$$
    <<"E", "R", "f", ESC, "E", "W", "o", ESC, "Y", "E", "Y", ESC, ESC>>,  \* ERf$EWo$YEY$$
    <<"E", "R", "f", ESC, "E", "W", "o", ESC, "Y", "2", "D", "Y", ESC, ESC>>,  \* ERf$EWo$Y2DY$$
    <<"E", "R", "f", ESC, "Y", "Y", ESC, ESC>>,  \* ERf$YY$$
    <<"E", "R", "f", ESC, "E", "W", "o", ESC, "Y", "1", "E", "D", "Y", ESC, ESC>>,  \* ERf$EWo$Y1EDY$$
    <<"E", "W", "o", ESC, "I", "a", ESC, "Y", ESC, ESC>>,  \* EWo$Ia$Y$$
    <<"E", "W", "o", ESC, "I", "a", ESC, "E", "Y", ESC, ESC>>,  \* EWo$Ia$EY$$
    <<"E", "R", "f", ESC, "E", "W", "o", ESC, "Y", "Y", "I", "x", ESC, ESC>>,  \* ERf$EWo$YYIx$$
    <<"3", "2", "7", "6", "8", "E", "D", ESC, ESC>>,  \* 32768ED$$
    <<"-", "6", "5", "5", "3", "6", "E", "D", ESC, ESC>>,  \* -65536ED$$
    <<"1", "0", "0", "0", "0", "0", "E", "D", ESC, ESC>>,  \* 100000ED$$
    <<"3", "2", "7", "6", "7", "E", "D", ESC, ESC>>,  \* 32767ED$$
    <<"-", "1", "E", "D", ESC, ESC>>,  \* -1ED$$
    <<"-", "3", "2", "7", "6", "9", "E", "D", ESC, ESC>>,  \* -32769ED$$
    <<"1", ",", "6", "5", "5", "3", "9", "E", "D", ESC, ESC>>,  \* 1,65539ED$$
    <<"6", "5", "5", "3", "6", "E", "T", ESC, ESC>>,  \* 65536ET$$
    <<"0", "E", "T", ESC, ESC>>,  \* 0ET$$
    <<"-", "1", ",", "0", "E", "T", ESC, ESC>>,  \* -1,0ET$$
    <<"5", "1", "2", ",", "0", "E", "T", ESC, ESC>>,  \* 512,0ET$$
    <<"3", "2", "7", "6", "8", "E", "T", "E", "T", "U", "a", ESC, ESC>>,  \* 32768ETETUa$$
    <<"E", "T", "U", "a", ESC, ESC>>,  \* ETUa$$
    <<"1", "0", "2", "4", ",", "0", "E", "T", ESC, ESC>>,  \* 1024,0ET$$
    <<"0", ",", "3", "2", "7", "6", "8", "E", "T", ESC, ESC>>,  \* 0,32768ET$$
    <<"1", ",", "3", "E", "D", ESC, ESC>>,  \* 1,3ED$$
    <<"2", ",", "0", "E", "D", ESC, ESC>>,  \* 2,0ED$$
    <<"1", "3", "1", "0", "7", "1", "E", "T", ESC, ESC>>,  \* 131071ET$$
    <<"-", "4", "0", "0", "0", "0", "E", "T", ESC, ESC>>,  \* -40000ET$$
    <<"1", "6", "6", "4", ",", "0", "E", "T", ESC, ESC>>,  \* 1664,0ET$$
    <<"E", "D", "U", "a", ESC, ESC>>,  \* EDUa$$
    <<"3", "E", "D", "1", ",", "0", "E", "D", "E", "D", "U", "a", ESC, ESC>>,  \* 3ED1,0EDEDUa$$
    <<"2", "5", "6", ":", "W", ESC, ESC>>,  \* 256:W$$
    <<"2", "5", "7", ":", "W", ESC, ESC>>,  \* 257:W$$
    <<"3", "2", "7", "6", "8", "E", "T", "2", "5", "6", ":", "W", "U", "a", ESC, ESC>>,  \* 32768ET256:WUa$$
    <<"2", "6", "0", ":", "W", ESC, ESC>>,  \* 260:W$$
    <<"W", ESC, ESC>>,  \* W$$
    <<"0", "W", ESC, ESC>>,  \* 0W$$
    <<"5", "W", ESC, ESC>>,  \* 5W$$
    <<"-", "1", "W", ESC, ESC>>,  \* -1W$$
    <<":", "W", ESC, ESC>>,  \* :W$$
    <<"1", ":", "W", ESC, ESC>>,  \* 1:W$$
    <<"8", ":", "W", ESC, ESC>>,  \* 8:W$$
    <<"9", ",", "1", ":", "W", "1", ":", "W", "U", "a", ESC, ESC>>,  \* 9,1:W1:WUa$$
    <<"9", ",", "0", ":", "W", ESC, ESC>>,  \* 9,0:W$$
    <<"2", "7", ",", "2", "5", "6", ":", "W", ESC, ESC>>,  \* 27,256:W$$
    <<"2", "5", "8", ":", "W", ESC, ESC>>,  \* 258:W$$
    <<"3", "2", "0", ":", "W", ESC, ESC>>,  \* 320:W$$
    <<"^", "T", "U", "a", ESC, ESC>>,  \* ^TUa$$
    <<"3", "2", "E", "T", "^", "T", "U", "a", ESC, ESC>>,  \* 32ET^TUa$$
    <<"6", "5", "^", "T", ESC, ESC>>,  \* 65^T$$
    <<"-", "1", "E", "T", "^", "T", "U", "a", ESC, ESC>>,  \* -1ET^TUa$$
    <<":", "^", "T", "U", "a", ESC, ESC>>,  \* :^TUa$$
    <<"-", "1", "W", "^", "T", "U", "a", ESC, ESC>>,  \* -1W^TUa$$
    <<"-", "1", "W", "3", "2", "7", "6", "8", "E", "T", "^", "T", "U", "a", ESC, ESC>>,  \* -1W32768ET^TUa$$
    <<"-", "1", "W", "W", ESC, ESC>>,  \* -1WW$$
    <<"2", "8", "8", ":", "W", ESC, ESC>>,  \* 288:W$$
    <<"-", "1", "E", "T", "2", "5", "6", ":", "W", ESC, ESC>>,  \* -1ET256:W$$
    <<"1", ",", "2", ":", "W", "2", ":", "W", "U", "a", ESC, ESC>>,  \* 1,2:W2:WUa$$
    <<"-", "1", "W", "2", "5", "7", ":", "W", ESC, ESC>>,  \* -1W257:W$$
    <<"(", ")", "5", "U", "a", ESC, ESC>>,  \* ()5Ua$$
    <<"(", "5", "+", ")", "U", "a", ESC, ESC>>,  \* (5+)Ua$$
    <<"5", ")", "U", "a", ESC, ESC>>,  \* 5)Ua$$
    <<"(", "5", "+", "3", "U", "a", ESC, ESC>>,  \* (5+3Ua$$
    <<"2", "*", "(", "3", "+", "4", ")", "U", "a", ESC, ESC>>,  \* 2*(3+4)Ua$$
    <<"(", "5", ")", "+", "(", "2", ")", "U", "a", ESC, ESC>>,  \* (5)+(2)Ua$$
    <<"(", "J", ESC, ESC>>,  \* (J$$
    <<"(", "3", "C", ESC, ESC>>,  \* (3C$$
    <<"2", "(", ")", "U", "a", ESC, ESC>>,  \* 2()Ua$$
    <<"3", "+", "(", ")", "U", "a", ESC, ESC>>,  \* 3+()Ua$$
    <<"(", "(", "2", ")", "U", "a", ESC, ESC>>,  \* ((2)Ua$$
    <<"(", "-", ")", "U", "a", ESC, ESC>>,  \* (-)Ua$$
    <<"(", "-", "3", ")", "U", "a", ESC, ESC>>,  \* (-3)Ua$$
    <<"(", "8", "/", "0", ")", "U", "a", ESC, ESC>>,  \* (8/0)Ua$$
    <<"(", "8", "/", "0", "+", "1", ")", "U", "a", ESC, ESC>>,  \* (8/0+1)Ua$$
    <<"3", "*", "(", "2", "+", "1", ")", "U", "a", ESC, ESC>>,  \* 3*(2+1)Ua$$
    <<"-", "(", "2", ")", "U", "a", ESC, ESC>>,  \* -(2)Ua$$
    <<"(", "2", ")", "+", "U", "a", ESC, ESC>>,  \* (2)+Ua$$
    <<"(", ")", "U", "a", ESC, ESC>>,  \* ()Ua$$
    <<")", ESC, ESC>>,  \* )$$
    <<"(", "5", "*", ")", ESC, ESC>>,  \* (5*)$$
    <<"1", "(", "2", ")", "U", "a", ESC, ESC>>,  \* 1(2)Ua$$
    <<"(", "1", ")", "2", "U", "a", ESC, ESC>>,  \* (1)2Ua$$
    <<"(", "0", "/", "0", ")", ESC, ESC>>,  \* (0/0)$$
    <<"(", ")", ESC, ESC>>,  \* ()$$
    <<"(", "5", ")", "(", ESC, ESC>>,  \* (5)($$
    <<"2", "+", "(", "3", "U", "a", ESC, ESC>>,  \* 2+(3Ua$$
    <<"(", "(", "5", ")", ")", "U", "a", ESC, ESC>>,  \* ((5))Ua$$
    <<"(", "(", ")", "5", ")", "U", "a", ESC, ESC>>,  \* (()5)Ua$$
    <<"1", "+", "2", "*", "3", "U", "a", ESC, ESC>>,  \* 1+2*3Ua$$
    <<"7", "/", "2", "U", "a", ESC, ESC>>,  \* 7/2Ua$$
    <<"-", "7", "/", "2", "U", "a", ESC, ESC>>,  \* -7/2Ua$$
    <<"8", "/", "0", "U", "a", ESC, ESC>>,  \* 8/0Ua$$
    <<"^", "O", "1", "9", "U", "a", ESC, ESC>>,  \* ^O19Ua$$
    <<"-", "5", "U", "a", ESC, ESC>>,  \* -5Ua$$
    <<"+", "5", "U", "a", ESC, ESC>>,  \* +5Ua$$
    <<"1", "0", "-", "3", "-", "2", "U", "a", ESC, ESC>>,  \* 10-3-2Ua$$
    <<"6", "&", "3", "#", "8", "U", "a", ESC, ESC>>,  \* 6&3#8Ua$$
    <<"^", "O", "8", "U", "a", ESC, ESC>>,  \* ^O8Ua$$
    <<"^", "O", "7", "+", "1", "U", "a", ESC, ESC>>,  \* ^O7+1Ua$$
    <<"2", "*", "U", "a", ESC, ESC>>,  \* 2*Ua$$
    <<"5", "-", "U", "a", ESC, ESC>>,  \* 5-Ua$$
    <<"1", "2", "*", "3", "/", "5", "U", "a", ESC, ESC>>,  \* 12*3/5Ua$$
    <<"0", "-", "7", "/", "2", "U", "a", ESC, ESC>>,  \* 0-7/2Ua$$
    <<"9", "/", "(", "1", "-", "1", ")", "U", "a", ESC, ESC>>,  \* 9/(1-1)Ua$$
    <<"4", "#", "3", "&", "6", "U", "a", ESC, ESC>>,  \* 4#3&6Ua$$
    <<"2", "*", "(", "1", "+", "(", "2", "*", "3", ")", ")", "U", "a", ESC, ESC>>,  \* 2*(1+(2*3))Ua$$
    <<"^", "O", "1", "7", "+", "1", "U", "a", ESC, ESC>>,  \* ^O17+1Ua$$
    <<"(", "9", ")", "/", "2", "U", "a", ESC, ESC>>,  \* (9)/2Ua$$
    <<"^", "O", "(", "7", "+", "8", ")", "U", "a", ESC, ESC>>,  \* ^O(7+8)Ua$$
    <<"8", "/", "0", "+", "1", "U", "a", ESC, ESC>>,  \* 8/0+1Ua$$
    <<"-", "(", "7", ")", "/", "2", "U", "a", ESC, ESC>>,  \* -(7)/2Ua$$
    <<"1", "+", "(", "0", "-", "9", ")", "/", "2", "U", "a", ESC, ESC>>,  \* 1+(0-9)/2Ua$$
    <<"^", "O", "1", "2", "/", "0", "U", "a", ESC, ESC>>,  \* ^O12/0Ua$$
    <<"5", "-", "7", "&", "3", "U", "a", ESC, ESC>>,  \* 5-7&3Ua$$
    <<"2", "+", "-", "3", "U", "a", ESC, ESC>>,  \* 2+-3Ua$$
    <<"^", "O", "(", "2", "+", "9", ")", "U", "a", ESC, ESC>>,  \* ^O(2+9)Ua$$
    <<"-", "3", "*", "-", "2", "U", "a", ESC, ESC>>,  \* -3*-2Ua$$
    <<"0", "/", "5", "U", "a", ESC, ESC>>,  \* 0/5Ua$$
    <<"(", "1", "-", "8", ")", "/", "(", "2", ")", "U", "a", ESC, ESC>>,  \* (1-8)/(2)Ua$$
    <<"^", "O", "9", "/", "0", "U", "a", ESC, ESC>>,  \* ^O9/0Ua$$
    <<"-", "1", "\"", "A", " ", "I", "x", ESC, "'", ESC, ESC>>,  \* -1"A Ix$'$$
    <<"-", "1", "\"", "D", " ", "I", "x", ESC, "'", ESC, ESC>>,  \* -1"D Ix$'$$
    <<"-", "1", "\"", "R", " ", "I", "x", ESC, "'", ESC, ESC>>,  \* -1"R Ix$'$$
    <<"-", "1", "\"", "V", " ", "I", "x", ESC, "'", ESC, ESC>>,  \* -1"V Ix$'$$
    <<"-", "1", "\"", "W", " ", "I", "x", ESC, "'", ESC, ESC>>,  \* -1"W Ix$'$$
    <<"6", "5", "\"", "C", " ", "I", "x", ESC, "'", ESC, ESC>>,  \* 65"C Ix$'$$
    <<"3", "6", "\"", "C", " ", "I", "x", ESC, "'", ESC, ESC>>,  \* 36"C Ix$'$$
    <<"4", "6", "\"", "C", " ", "I", "x", ESC, "'", ESC, ESC>>,  \* 46"C Ix$'$$
    <<"9", "5", "\"", "C", " ", "I", "x", ESC, "'", ESC, ESC>>,  \* 95"C Ix$'$$
    <<"3", "2", "\"", "C", " ", "I", "x", ESC, "'", ESC, ESC>>,  \* 32"C Ix$'$$
    <<"\"", "C", " ", "I", "x", ESC, "'", ESC, ESC>>,  \* "C Ix$'$$
    <<"5", "\"", "Z", " ", "I", "x", ESC, "'", ESC, ESC>>,  \* 5"Z Ix$'$$
    <<"-", "2", "\"", "C", " ", "I", "x", ESC, " ", "|", " ", "I", "y", ESC, " ", "'", ESC, ESC>>,  \* -2"C Ix$ | Iy$ '$$
    <<"0", "\"", "C", " ", "I", "x", ESC, "'", ESC, ESC>>,  \* 0"C Ix$'$$
    <<"3", "5", "\"", "C", " ", "I", "x", ESC, " ", "|", " ", "I", "y", ESC, " ", "'", ESC, ESC>>,  \* 35"C Ix$ | Iy$ '$$
    <<"-", "6", "5", "\"", "C", " ", "I", "x", ESC, "'", ESC, ESC>>,  \* -65"C Ix$'$$
    <<"5", "7", "\"", "C", " ", "I", "x", ESC, "'", ESC, ESC>>,  \* 57"C Ix$'$$
    <<"-", "1", "\"", "Z", " ", "I", "x", ESC, "'", ESC, ESC>>,  \* -1"Z Ix$'$$
    <<"I", "a", "b", "a", "b", ESC, "1", "J", "-", "S", "b", ESC, ESC>>,  \* Iabab$1J-Sb$$
    <<"I", "a", "b", "a", "b", ESC, "-", "3", "S", "b", ESC, ESC>>,  \* Iabab$-3Sb$$
    <<"I", "a", "b", "a", "b", ESC, "2", "J", "-", "S", "a", "b", ESC, ESC>>,  \* Iabab$2J-Sab$$
    <<"I", "a", "b", "a", "b", ESC, "3", "J", "-", "S", "a", "b", ESC, ESC>>,  \* Iabab$3J-Sab$$
    <<"I", "a", "a", "a", ESC, "-", "2", "S", "a", "a", ESC, ESC>>,  \* Iaaa$-2Saa$$
    <<"I", "a", "a", "a", ESC, "2", "J", "-", "S", "a", "a", ESC, ESC>>,  \* Iaaa$2J-Saa$$
    <<"I", "a", "b", "a", "b", ESC, "2", "J", "-", "S", "b", ESC, ESC>>,  \* Iabab$2J-Sb$$
    <<"I", "a", "b", "a", "b", ESC, "J", "-", "S", "a", ESC, ESC>>,  \* Iabab$J-Sa$$
    <<"I", "a", "a", "a", "a", ESC, "-", "2", "S", "a", "a", ESC, ESC>>,  \* Iaaaa$-2Saa$$
    <<"I", "a", "b", "a", "b", ESC, "3", "J", "-", "2", "S", "b", ESC, ESC>>,  \* Iabab$3J-2Sb$$
    <<"I", "a", "b", "a", "b", ESC, "-", ":", "S", "x", ESC, ESC>>,  \* Iabab$-:Sx$$
    <<"I", "a", "a", "a", ESC, "-", "3", "S", "a", ESC, ESC>>,  \* Iaaa$-3Sa$$
    <<"I", "a", "a", "a", ESC, "-", "S", "a", "a", ESC, ESC>>,  \* Iaaa$-Saa$$
    <<"I", "a", "b", "a", "b", ESC, "3", "J", "-", ":", ":", "S", "b", ESC, ESC>>,  \* Iabab$3J-::Sb$$
    <<"I", "a", "b", "a", "b", ESC, "-", "2", ":", "S", "a", ESC, ESC>>,  \* Iabab$-2:Sa$$
    <<"I", "b", "a", "b", ESC, "-", "2", "S", "b", ESC, ESC>>,  \* Ibab$-2Sb$$
    <<"I", "b", "a", "b", ESC, "-", "3", "S", "b", ESC, ESC>>,  \* Ibab$-3Sb$$
    <<"I", "b", "a", "b", ESC, "<", "-", "S", "b", ESC, ">", ESC, ESC>>,  \* Ibab$<-Sb$>$$
    <<"I", "a", "b", ESC, "J", "-", "S", "a", ESC, ESC>>,  \* Iab$J-Sa$$
    <<"I", "x", "a", "a", ESC, "-", "3", "S", "a", ESC, ESC>>,  \* Ixaa$-3Sa$$
    <<"I", "x", "y", ESC, "5", "U", "a", "[", "a", ":", "M", "z", "Q", ".", "b", "U", "c", ESC, ESC>>,  \* Ixy$5Ua[a:MzQ.bUc$$
    <<"@", "^", "U", "a", "/", "M", "z", "/", "M", "a", "I", "x", ESC, ESC>>,  \* @^Ua/Mz/MaIx$$
    <<"@", "^", "U", "b", "/", "/", "I", "x", ESC, "1", ",", "2", "M", "b", "U", "a", ESC, ESC>>,  \* @^Ub//Ix$1,2MbUa$$
    <<"@", "^", "U", "a", "/", "3", "U", ".", "b", ":", "M", "z", "/", "M", "a", "I", "x", ESC, ESC>>,  \* @^Ua/3U.b:Mz/MaIx$$
    <<"I", "a", "b", LF, "c", ESC, "J", "2", "C", "-", "R", ".", "+", "1", "U", "a", "L", "Z", "U", "b", "B", ESC, ESC>>,  \* Iab<^J>c$J2C-R.+1UaLZUbB$$
    <<"I", "a", "b", "c", ESC, "J", "(", "1", "+", "2", ")", "*", "2", "/", "3", "&", "3", "#", "4", "D", "-", "D", ESC, ESC>>,  \* Iabc$J(1+2)*2/3&3#4D-D$$
    <<"I", "a", "b", "c", ESC, "1", ",", "2", "D", "1", "A", "U", "a", ESC, ESC>>,  \* Iabc$1,2D1AUa$$
    <<"I", "a", "b", ESC, "3", "C", ESC, ESC>>,  \* Iab$3C$$
    <<"1", ",", ESC, ESC>>,  \* 1,$$
    <<"{", ESC, ESC>>,  \* {$$
    <<"E", "Q", ESC, ESC>>,  \* EQ$$
    <<"F", ESC, ESC>>,  \* F$$
    <<"^", ESC, ESC>>,  \* ^$$
    <<"^", "1", ESC, ESC>>,  \* ^1$$
    <<"F", "X", ESC, ESC>>,  \* FX$$
    <<"I", "a", ESC, " ", "!", "t", "!", LF, CR, "^", "A", "x", CTRLA, ESC, ESC>>,  \* Ia$ !t!<^J><^M>^Ax<^A>$$
    <<TAB, "x", ESC, "^", "I", "a", ESC, ESC>>,  \* <TAB>x$^Ia$$
    <<"O", "a", ESC, "I", "x", ESC, "!", "a", "!", "I", "y", ESC, ESC>>,  \* Oa$Ix$!a!Iy$$
    <<"2", "O", "a", ",", "b", ",", "c", ESC, "I", "x", ESC, "!", "a", "!", "I", "a", ESC, "!", "b", "!", "I", "b", ESC, "!", "c", "!", "I", "c", ESC, ESC>>,  \* 2Oa,b,c$Ix$!a!Ia$!b!Ib$!c!Ic$$
    <<"1", "O", "a", ",", "b", ESC, "I", "x", ESC, "!", "a", "!", "I", "a", ESC, "!", "b", "!", "I", "b", ESC, ESC>>,  \* 1Oa,b$Ix$!a!Ia$!b!Ib$$
    <<"0", "O", "a", ",", "b", ESC, "I", "x", ESC, "!", "a", "!", "I", "y", ESC, ESC>>,  \* 0Oa,b$Ix$!a!Iy$$
    <<"3", "O", "a", ",", "b", ESC, "I", "x", ESC, "!", "a", "!", "I", "y", ESC, "!", "b", "!", "I", "z", ESC, ESC>>,  \* 3Oa,b$Ix$!a!Iy$!b!Iz$$
    <<"O", "a", ESC, "<", "!", "a", "!", ">", "I", "b", ESC, ESC>>,  \* Oa$<!a!>Ib$$
    <<"O", "a", ESC, "I", "b", ESC, ESC>>,  \* Oa$Ib$$
    <<"O", ESC, "I", "b", ESC, ESC>>,  \* O$Ib$$
    <<"2", "<", "I", "c", ESC, "O", "a", ESC, "I", "x", ESC, "!", "a", "!", "I", "y", ESC, ">", "I", "z", ESC, ESC>>,  \* 2<Ic$Oa$Ix$!a!Iy$>Iz$$
    <<"2", "<", "I", "c", ESC, "O", "a", ESC, "I", "x", ESC, ">", "I", "z", ESC, "!", "a", "!", "I", "w", ESC, ESC>>,  \* 2<Ic$Oa$Ix$>Iz$!a!Iw$$
    <<"2", "<", "I", "c", ESC, "O", "a", ESC, "I", "x", ESC, ">", "I", "z", ESC, "!", "a", "!", "I", "w", ESC, ">", ESC, ESC>>,  \* 2<Ic$Oa$Ix$>Iz$!a!Iw$>$$
    <<"I", "x", ESC, "!", "a", "!", "I", "y", ESC, "2", "<", "I", "c", ESC, "O", "a", ESC, "I", "z", ESC, ">", ESC, ESC>>,  \* Ix$!a!Iy$2<Ic$Oa$Iz$>$$
    <<"O", "a", ESC, "@", "!", "/", "b", "/", "!", "a", "!", "I", "x", ESC, ESC>>,  \* Oa$@!/b/!a!Ix$$
    <<"O", "A", ESC, "I", "x", ESC, "!", "a", "!", "I", "y", ESC, ESC>>,  \* OA$Ix$!a!Iy$$
    <<"O", "a", ESC, "!", "a", "b", "!", "I", "x", ESC, "!", "a", "!", "I", "y", ESC, ESC>>,  \* Oa$!ab!Ix$!a!Iy$$
    <<"O", "a", ESC, "!", "b", ESC, ESC>>,  \* Oa$!b$$
    <<"O", "a", ESC, ">", "!", "a", "!", ESC, ESC>>,  \* Oa$>!a!$$
    <<"@", "O", "/", "a", "/", "I", "x", ESC, "!", "a", "!", "I", "y", ESC, ESC>>,  \* @O/a/Ix$!a!Iy$$
    <<"O", "a", ESC, "<", "I", "x", ESC, "!", "a", "!", ESC, ESC>>,  \* Oa$<Ix$!a!$$
    <<"1", "U", "b", "!", "a", "!", "Q", "b", "\"", "N", "0", "U", "b", "O", "a", ESC, "'", "I", "x", ESC, ESC>>,  \* 1Ub!a!Qb"N0UbOa$'Ix$$
    <<"2", "O", "a", ",", ",", "b", ESC, "I", "x", ESC, "!", "!", "I", "y", ESC, ESC>>,  \* 2Oa,,b$Ix$!!Iy$$
    <<"-", "1", "O", "a", ESC, "I", "x", ESC, "!", "a", "!", "I", "y", ESC, ESC>>,  \* -1Oa$Ix$!a!Iy$$
    <<"1", ",", "2", "O", "a", ",", "b", ESC, "I", "x", ESC, "!", "a", "!", "I", "y", ESC, "!", "b", "!", "I", "z", ESC, ESC>>,  \* 1,2Oa,b$Ix$!a!Iy$!b!Iz$$
    <<"^", "O", "1", "0", "U", "a", ESC, ESC>>,  \* ^O10Ua$$
    <<"^", "O", "^", "D", "1", "0", "U", "a", ESC, ESC>>,  \* ^O^D10Ua$$
    <<"8", "^", "R", "1", "0", "U", "a", ESC, ESC>>,  \* 8^R10Ua$$
    <<"1", "6", "^", "R", "1", "0", "U", "a", ESC, ESC>>,  \* 16^R10Ua$$
    <<"^", "R", "U", "a", ESC, ESC>>,  \* ^RUa$$
    <<"^", "O", "^", "R", "U", "a", ESC, ESC>>,  \* ^O^RUa$$
    <<"7", "^", "R", "I", "x", ESC, ESC>>,  \* 7^RIx$$
    <<"0", "^", "R", ESC, ESC>>,  \* 0^R$$
    <<"^", "O", "1", "0", "^", "R", "^", "R", "U", "a", ESC, ESC>>,  \* ^O10^R^RUa$$
    <<"^", "O", "1", "2", "^", "R", "^", "R", "U", "a", ESC, ESC>>,  \* ^O12^R^RUa$$
    <<"1", "6", "^", "R", "^", "R", "U", "a", ESC, ESC>>,  \* 16^R^RUa$$
    <<"^", "O", ":", "^", "R", "U", "a", ESC, ESC>>,  \* ^O:^RUa$$
    <<CTRLO, "1", "0", "U", "a", ESC, ESC>>,  \* <^O>10Ua$$
    <<"^", "O", CTRLD, "1", "0", "U", "a", ESC, ESC>>,  \* ^O<^D>10Ua$$
    <<CTRLR, "U", "a", ESC, ESC>>,  \* <^R>Ua$$
    <<"^", "O", "9", "^", "R", ESC, ESC>>,  \* ^O9^R$$
    <<"-", "8", "^", "R", ESC, ESC>>,  \* -8^R$$
    <<"^", "O", "2", "0", "^", "R", "^", "R", "U", "a", ESC, ESC>>,  \* ^O20^R^RUa$$
    <<"2", "^", "R", "^", "R", "U", "a", ESC, ESC>>,  \* 2^R^RUa$$
    <<"^", "O", "5", "^", "D", "^", "R", "U", "a", ESC, ESC>>,  \* ^O5^D^RUa$$
    <<"5", "^", "O", "^", "R", "U", "a", ESC, ESC>>,  \* 5^O^RUa$$
    <<"^", "O", "9", ESC, ESC>>,  \* ^O9$$
    <<"E", "R", "f", ESC, "Y", "^", "E", "U", "a", ESC, ESC>>,  \* ERf$Y^EUa$$
    <<"E", "R", "f", ESC, "Y", "Y", "^", "E", "U", "a", ESC, ESC>>,  \* ERf$YY^EUa$$
    <<"^", "E", "U", "a", ESC, ESC>>,  \* ^EUa$$
    <<"E", "R", "f", ESC, "Y", "Y", "Y", "^", "E", "U", "a", "^", "N", "U", "b", ESC, ESC>>,  \* ERf$YYY^EUa^NUb$$
    <<"E", "R", "k", ESC, "Y", "^", "E", "U", "a", ESC, ESC>>,  \* ERk$Y^EUa$$
    <<"E", "R", "k", ESC, "Y", "Y", "^", "E", "U", "a", "^", "N", "U", "b", ESC, ESC>>,  \* ERk$YY^EUa^NUb$$
    <<"E", "R", "e", ESC, "Y", "^", "E", "U", "a", "^", "N", "U", "b", ESC, ESC>>,  \* ERe$Y^EUa^NUb$$
    <<"E", "R", "f", ESC, "A", "^", "E", "U", "a", ESC, ESC>>,  \* ERf$A^EUa$$
    <<"E", "R", "f", ESC, "E", "W", "o", ESC, "P", "^", "E", "U", "a", "^", "N", "U", "b", ESC, ESC>>,  \* ERf$EWo$P^EUa^NUb$$
    <<"E", "R", "f", ESC, "Y", CTRLE, "U", "a", ESC, ESC>>,  \* ERf$Y<^E>Ua$$
    <<"E", "R", "h", ESC, "Y", "^", "E", "U", "a", ESC, ESC>>,  \* ERh$Y^EUa$$
    <<"E", "R", "g", ESC, "Y", "^", "E", "U", "a", "^", "N", "U", "b", ESC, ESC>>,  \* ERg$Y^EUa^NUb$$
    <<"E", "R", "f", ESC, "Y", "E", "C", "^", "E", "U", "a", "^", "N", "U", "b", ESC, ESC>>,  \* ERf$YEC^EUa^NUb$$
    <<"E", "R", "f", ESC, "^", "E", "U", "a", "^", "N", "U", "b", ESC, ESC>>,  \* ERf$^EUa^NUb$$
    <<"E", "R", "f", ESC, "E", "W", "o", ESC, "Y", "E", "C", "^", "E", "U", "a", "^", "N", "U", "b", ESC, ESC>>,  \* ERf$EWo$YEC^EUa^NUb$$
    <<"E", "R", "f", ESC, "E", "Y", "^", "E", "U", "a", "^", "N", "U", "b", ESC, ESC>>,  \* ERf$EY^EUa^NUb$$
    <<"E", "R", "f", ESC, "A", "A", "^", "E", "U", "a", "^", "N", "U", "b", ESC, ESC>>,  \* ERf$AA^EUa^NUb$$
    <<"E", "R", "f", ESC, "A", "A", "A", "^", "E", "U", "a", "^", "N", "U", "b", ESC, ESC>>,  \* ERf$AAA^EUa^NUb$$
    <<"E", "R", "f", ESC, "E", "W", "o", ESC, "2", "P", "^", "E", "U", "a", "^", "N", "U", "b", ESC, ESC>>,  \* ERf$EWo$2P^EUa^NUb$$
    <<"E", "R", "f", ESC, "E", "W", "o", ESC, "3", "P", "^", "E", "U", "a", "^", "N", "U", "b", ESC, ESC>>,  \* ERf$EWo$3P^EUa^NUb$$
    <<"2", "<", "I", "a", ESC, "F", ">", "I", "b", ESC, ">", "I", "c", ESC, ESC>>,  \* 2<Ia$F>Ib$>Ic$$
    <<"2", "<", "I", "a", ESC, "Z", "-", "2", "\"", "L", "F", "<", "'", "I", "b", ESC, ">", ESC, ESC>>,  \* 2<Ia$Z-2"LF<'Ib$>$$
    <<"F", "<", ESC, ESC>>,  \* F<$$
    <<"I", "a", ESC, "F", ">", "I", "b", ESC, ESC>>,  \* Ia$F>Ib$$
    <<"@", "^", "U", "a", "/", "F", ">", "I", "x", "/", "M", "a", "I", "y", ESC, ESC>>,  \* @^Ua/F>Ix/MaIy$$
    <<"1", "<", "I", "a", ESC, "F", ">", "I", "b", ESC, ESC>>,  \* 1<Ia$F>Ib$$
    <<"2", "<", "I", "a", ESC, "1", "<", "F", ">", "I", "b", ESC, ">", "I", "c", ESC, ">", "I", "d", ESC, ESC>>,  \* 2<Ia$1<F>Ib$>Ic$>Id$$
    <<"1", "\"", "E", "F", "<", "'", ESC, ESC>>,  \* 1"EF<'$$
    <<"0", "\"", "E", " ", "I", "a", ESC, " ", "F", "'", " ", "I", "b", ESC, " ", "'", " ", "I", "c", ESC, ESC>>,  \* 0"E Ia$ F' Ib$ ' Ic$$
    <<"F", "'", ESC, ESC>>,  \* F'$$
    <<"0", "\"", "E", " ", "F", "'", " ", "|", " ", "I", "x", ESC, " ", "'", " ", "I", "c", ESC, ESC>>,  \* 0"E F' | Ix$ ' Ic$$
    <<"3", "<", "I", "a", ESC, "F", ">", ">", "I", "c", ESC, ESC>>,  \* 3<Ia$F>>Ic$$
    <<"1", "<", "F", ">", ">", "I", "c", ESC, ESC>>,  \* 1<F>>Ic$$
    <<"1", "<", "F", ">", "<", "I", "a", ESC, ">", ">", "I", "c", ESC, ESC>>,  \* 1<F><Ia$>>Ic$$
    <<"2", "<", "Z", "\"", "E", "I", "a", ESC, "F", "<", "'", "I", "b", ESC, ">", ESC, ESC>>,  \* 2<Z"EIa$F<'Ib$>$$
    <<"1", "<", "F", ">", TAB, "a", ">", "I", "b", ESC, ">", "I", "x", ESC, ESC>>,  \* 1<F><TAB>a>Ib$>Ix$$
    <<"1", "<", "F", ">", "^", "U", "a", ">", ESC, "I", "b", ESC, ">", "I", "x", ESC, ESC>>,  \* 1<F>^Ua>$Ib$>Ix$$
    <<"2", "<", "I", "a", ESC, "F", ">", TAB, "a", ">", "b", ESC, ">", "I", "x", ESC, ESC>>,  \* 2<Ia$F><TAB>a>b$>Ix$$
    <<"1", "<", "F", ">", "I", "a", ">", ESC, ">", "I", "x", ESC, ESC>>,  \* 1<F>Ia>$>Ix$$
    <<"1", "<", "F", ">", "@", "I", "/", "a", ">", "/", ">", "I", "x", ESC, ESC>>,  \* 1<F>@I/a>/>Ix$$
    <<"2", "<", "I", "a", ESC, "1", "\"", "N", "F", ">", "'", "I", "b", ESC, ">", "I", "c", ESC, ESC>>,  \* 2<Ia$1"NF>'Ib$>Ic$$
    <<"3", "<", "I", "a", ESC, "Z", "-", "2", "\"", "E", "F", ">", "'", "I", "b", ESC, ">", "I", "c", ESC, ESC>>,  \* 3<Ia$Z-2"EF>'Ib$>Ic$$
    <<"1", "<", "F", ">", "!", "a", ">", "!", ">", "I", "x", ESC, ESC>>,  \* 1<F>!a>!>Ix$$
    <<"<", "I", "a", ESC, "Z", "-", "2", "\"", "L", ":", "F", "<", "'", "0", ";", ">", ESC, ESC>>,  \* <Ia$Z-2"L:F<'0;>$$
    <<"O", "a", ESC, TAB, "!", "a", "!", "I", "x", ESC, "!", "a", "!", "I", "y", ESC, ESC>>,  \* Oa$<TAB>!a!Ix$!a!Iy$$
    <<"O", "a", ESC, "^", "U", "b", "!", "a", "!", "I", "x", ESC, "!", "a", "!", "I", "y", ESC, ESC>>,  \* Oa$^Ub!a!Ix$!a!Iy$$
    <<"O", "a", ESC, "I", "!", "a", "!", "I", "x", ESC, "!", "a", "!", "I", "y", ESC, ESC>>,  \* Oa$I!a!Ix$!a!Iy$$
    <<"O", "a", ESC, "@", "I", "/", "!", "a", "!", "/", "I", "x", ESC, "!", "a", "!", "I", "y", ESC, ESC>>,  \* Oa$@I/!a!/Ix$!a!Iy$$
    <<"O", "a", ESC, "1", "\"", "E", "!", "a", "!", "'", "I", "x", ESC, ESC>>,  \* Oa$1"E!a!'Ix$$
    <<"@", "^", "U", "a", "/", "!", "b", "!", "Q", "c", "\"", "E", "1", "U", "c", "O", "b", ESC, "'", "@", "/", "M", "a", ESC, ESC>>,  \* @^Ua/!b!Qc"E1UcOb$'@/Ma$$
    <<"@", "^", "U", "a", "/", "!", "b", "!", "Q", "c", "\"", "E", "1", "U", "c", "O", "b", ESC, "'", "/", "M", "a", ESC, ESC>>,  \* @^Ua/!b!Qc"E1UcOb$'/Ma$$
    <<"O", "b", ESC, "@", "!", "/", "a", "/", "!", "b", "!", "I", "x", ESC, ESC>>,  \* Ob$@!/a/!b!Ix$$
    <<"O", "b", ESC, "@", "!", "/", "b", "/", "I", "x", ESC, ESC>>,  \* Ob$@!/b/Ix$$
    <<"O", "b", ESC, "@", "!", "/", "b", "!", "/", "I", "x", ESC, ESC>>,  \* Ob$@!/b!/Ix$$
    <<"O", "a", ESC, ":", "!", "a", "!", "I", "x", ESC, ESC>>,  \* Oa$:!a!Ix$$
    <<"O", "a", ESC, "0", "\"", "!", "a", "!", "I", "x", ESC, ESC>>,  \* Oa$0"!a!Ix$$
    <<"2", "<", "I", "a", ESC, "<", "O", "b", ESC, ">", "!", "b", "!", ">", "I", "c", ESC, ESC>>,  \* 2<Ia$<Ob$>!b!>Ic$$
    <<"O", "a", ESC, "<", "I", "x", ESC, ">", "!", "a", "!", "I", "y", ESC, ESC>>,  \* Oa$<Ix$>!a!Iy$$
    <<"O", "a", ESC, "<", "<", "!", "a", "!", ">", ">", "I", "x", ESC, "!", "a", "!", "I", "y", ESC, ESC>>,  \* Oa$<<!a!>>Ix$!a!Iy$$
    <<"1", "\"", "E", TAB, "a", "'", "I", "b", ESC, "'", "I", "x", ESC, ESC>>,  \* 1"E<TAB>a'Ib$'Ix$$
    <<"1", "\"", "N", "I", "a", ESC, "|", TAB, "x", "'", "I", "b", ESC, "'", "I", "c", ESC, ESC>>,  \* 1"NIa$|<TAB>x'Ib$'Ic$$
    <<"0", "\"", "N", "1", "\"", "E", "I", "a", ESC, "|", "I", "b", ESC, "'", "I", "c", ESC, "|", "I", "d", ESC, "'", "I", "e", ESC, ESC>>,  \* 0"N1"EIa$|Ib$'Ic$|Id$'Ie$$
    <<"1", "\"", "N", "1", "\"", "N", "I", "a", ESC, "|", "I", "b", ESC, "'", "I", "c", ESC, "|", "I", "d", ESC, "'", "I", "e", ESC, ESC>>,  \* 1"N1"NIa$|Ib$'Ic$|Id$'Ie$$
    <<"1", "\"", "N", "0", "\"", "N", "I", "a", ESC, "'", "I", "c", ESC, "|", "I", "d", ESC, "'", "I", "e", ESC, ESC>>,  \* 1"N0"NIa$'Ic$|Id$'Ie$$
    <<"1", "\"", "N", "I", "a", ESC, "|", "0", "\"", "N", "I", "b", ESC, "'", "I", "c", ESC, "'", "I", "d", ESC, ESC>>,  \* 1"NIa$|0"NIb$'Ic$'Id$$
    <<"0", "\"", "N", "1", "\"", "E", "I", "a", ESC, "'", "I", "b", ESC, ESC>>,  \* 0"N1"EIa$'Ib$$
    <<"1", "\"", "N", "0", "\"", "E", "I", "a", ESC, "|", "I", "b", ESC, "'", "I", "c", ESC, "'", "I", "d", ESC, ESC>>,  \* 1"N0"EIa$|Ib$'Ic$'Id$$
    <<"1", "\"", "N", "I", "a", ESC, "|", "I", "b", ESC, ESC>>,  \* 1"NIa$|Ib$$
    <<"0", "\"", "N", "I", "a", ESC, "|", "I", "b", ESC, ESC>>,  \* 0"NIa$|Ib$$
    <<"1", "\"", "E", "^", "U", "a", "'", ESC, "I", "b", ESC, "'", "I", "c", ESC, ESC>>,  \* 1"E^Ua'$Ib$'Ic$$
    <<"0", "\"", "N", "1", "\"", "N", "0", "\"", "N", "I", "a", ESC, "'", "|", "I", "b", ESC, "'", "|", "I", "c", ESC, "'", "I", "d", ESC, ESC>>,  \* 0"N1"N0"NIa$'|Ib$'|Ic$'Id$$
    <<"1", "\"", "N", "|", "I", "a", ESC, "'", "I", "b", ESC, ESC>>,  \* 1"N|Ia$'Ib$$
    <<"0", "\"", "N", "!", "a", "'", "b", "!", "I", "x", ESC, "'", "I", "c", ESC, ESC>>,  \* 0"N!a'b!Ix$'Ic$$
    <<"0", "\"", "N", "I", "a", ESC, "'", "|", "I", "b", ESC, "'", "I", "c", ESC, ESC>>,  \* 0"NIa$'|Ib$'Ic$$
    <<"0", "\"", "N", "@", "I", "/", "'", "/", "'", "I", "b", ESC, ESC>>,  \* 0"N@I/'/'Ib$$
    <<"1", "\"", "N", "0", "\"", "N", "1", "\"", "N", "I", "a", ESC, "'", "I", "b", ESC, "|", "I", "c", ESC, "'", "I", "d", ESC, "'", "I", "e", ESC, ESC>>,  \* 1"N0"N1"NIa$'Ib$|Ic$'Id$'Ie$$
    <<"|", ESC, ESC>>,  \* |$$
    <<"0", "\"", "N", "1", "\"", "N", "'", ESC, ESC>>,  \* 0"N1"N'$$
    <<"1", "6", "^", "R", "2", "5", "5", BSL, "^", "S", "U", "a", ESC, ESC>>,  \* 16^R255\^SUa$$
    <<"I", "1", "9", ESC, "J", "^", "O", BSL, "U", "a", ESC, ESC>>,  \* I19$J^O\Ua$$
    <<"I", "f", "F", ESC, "J", "1", "6", "^", "R", BSL, "U", "a", ESC, ESC>>,  \* IfF$J16^R\Ua$$
    <<"^", "O", "1", "5", BSL, ESC, ESC>>,  \* ^O15\$$
    <<"I", "+", "1", "2", ESC, "J", BSL, "U", "a", ESC, ESC>>,  \* I+12$J\Ua$$
    <<"I", "-", ESC, "J", BSL, "U", "a", ESC, ESC>>,  \* I-$J\Ua$$
    <<"I", "a", "b", ESC, "J", "5", BSL, "^", "S", "U", "a", ESC, ESC>>,  \* Iab$J5\^SUa$$
    <<"1", "6", "^", "R", "-", "2", "6", BSL, ESC, ESC>>,  \* 16^R-26\$$
    <<"I", "-", "1", "f", ESC, "J", "1", "6", "^", "R", BSL, "U", "a", ESC, ESC>>  \* I-1f$J16^R\Ua$$
}

\* the lines typed after the first
FollowUps == {
    <<"]", "c", ESC, ESC>>,  \* ]c$$
    <<"Z", "J", ESC, ESC>>,  \* ZJ$$
    <<"E", "X", ESC, ESC>>  \* EX$$
}

\* end of the command lines

----------------------------------------------------------------------------
(* Initial state, mainloop, specification *)

\* the files of the directory TECO runs in: f of two pages, g of one page of
\* two lines, h with a line that ends in CR LF, e empty, k that ends in a
\* form feed
InitialFiles ==
    (<<"f">> :> <<"a", "b", FF, "c", "b">>) @@
    (<<"g">> :> <<"a", LF, "b", LF>>) @@
    (<<"h">> :> <<"a", CR, LF, "b", FF, "c">>) @@
    (<<"e">> :> <<>>) @@
    (<<"k">> :> <<"a", FF>>)

\* the fixed bits of ET: 1024 when the display is available, 512 when the
\* terminal watch is, 0 when neither is
Builds == {0, 512, 1024}

\* teco.__init__, buffer.__init__, command_level.__init__
\* teco_cmdstring is not running
NotReading ==
    [state |-> "idle", buf |-> <<>>, bellflag |-> FALSE, escflag |-> FALSE,
     immediate |-> FALSE, typed |-> <<>>, result |-> <<>>]

\* no wxPython display has been started: the interpreter thread is between
\* two commands, and no repaint goes on
NoDisplay ==
    [running |-> FALSE, at |-> "command", inserted |-> <<>>, commands |-> 0,
     paint |-> "idle", curlinestart |-> 0, dot |-> 0, text |-> <<>>,
     last |-> <<<<>>, 0>>, boundaries |-> {}]

\* search is not running
NotSearching == [state |-> "idle"]

Init ==
    /\ \E fixed \in Builds :
       teco = [radix |-> 10, ed |-> 0, eh |-> 0, es |-> 0, et |-> 128 + fixed,
               etfixed |-> fixed, eu |-> -1, screen |-> FALSE, curline |-> 16,
               watchparams |-> <<8, 80, 24, 0, 0, 0, 0, 0>>,
               ev |-> 0, ctrlx |-> 0, trace |-> FALSE, laststringlen |-> 0,
               qregs |-> EmptyDict, lastsearch |-> <<>>, lastfilename |-> <<>>,
               qstack |-> <<>>, opstack |-> <<>>, arg |-> None, arg2 |-> None,
               num |-> None, op |-> "", colons |-> 0, atmod |-> FALSE]
    /\ buffer = [text |-> <<>>, dot |-> 0, ebflag |-> FALSE,
                 inputs |-> <<NoInput, NoInput>>, istream |-> 0,
                 outputs |-> <<NoOutput, NoOutput>>, ostream |-> 0]
    /\ levels = <<[command |-> <<>>, cmdpos |-> 0, iterstack |-> <<>>, qregs |-> 1]>>
    /\ scopes = <<EmptyDict>>
    /\ files = InitialFiles
    /\ mode = "prompt"
    /\ preverror = ""
    /\ linenum = 0
    /\ reader = NotReading
    /\ display = NoDisplay
    /\ searching = NotSearching

\* mainloop: a command line is read and the interactive level starts to run it
mainloop ==
    /\ mode = "prompt"
    /\ linenum < MaxLines
    /\ \E cmdline \in (IF linenum = 0 THEN Programs ELSE FollowUps) :
          /\ teco' = [clearargs(Work).t EXCEPT !.et = BitAnd(teco.et, BitNot(128))]
          /\ levels' = <<[levels[1] EXCEPT !.command = cmdline, !.cmdpos = 0,
                                           !.iterstack = <<>>]>>
    /\ preverror' = ""
    /\ mode' = "run"
    /\ linenum' = linenum + 1
    /\ UNCHANGED <<buffer, scopes, files, reader, display, searching>>

Next ==
    \/ mainloop
    \/ run_return
    \/ do_nop
    \/ do_char041
    \/ do_char001
    \/ do_char003
    \/ do_char011
    \/ do_char016
    \/ do_char023
    \/ do_char024
    \/ do_char025
    \/ do_char033
    \/ do_char042
    \/ do_char045
    \/ do_char047
    \/ do_char050
    \/ do_char051
    \/ do_operator
    \/ do_char054
    \/ do_char056
    \/ do_digit
    \/ do_char072
    \/ do_char073
    \/ do_char074
    \/ do_char076
    \/ do_char100
    \/ do_char133
    \/ do_char134
    \/ do_char135
    \/ do_char174
    \/ do_a
    \/ do_b
    \/ do_c
    \/ do_d
    \/ do_eb
    \/ do_ec
    \/ do_ed
    \/ do_ef
    \/ do_et
    \/ do_ek
    \/ do_er
    \/ do_ew
    \/ do_ex
    \/ do_ey
    \/ do_echar137
    \/ do_fb
    \/ do_fc
    \/ do_fr
    \/ do_fs
    \/ do_g
    \/ do_i
    \/ do_j
    \/ do_l
    \/ do_m
    \/ do_p
    \/ do_q
    \/ do_r
    \/ do_s
    \/ do_u
    \/ do_w
    \/ do_y
    \/ do_z
    \/ do_char004
    \/ do_char005
    \/ do_char017
    \/ do_char022
    \/ do_fchar047
    \/ do_fchar074
    \/ do_fchar076
    \/ do_o
    \/ do_ILL

Spec == Init /\ [][Next]_vars

----------------------------------------------------------------------------
(* Properties of the buffer *)

\* C1: after every command, 0 <= dot <= |buffer text|, also after a Y or EY
\* that fails NFI and after an EC with an output file and no input file
C1_DotInRange == 0 <= buffer.dot /\ buffer.dot <= Len(buffer.text)

----------------------------------------------------------------------------
(* Properties of the scanners.  The commands of a command string, as the   *)
(* handlers take them: a command with a string argument extends to the     *)
(* delimiter that strarg finds, one with a Q-register name to the end of   *)
(* the name that qregname reads.                                           *)

\* the position after the string argument that starts at position q: with @
\* the character at q is the delimiter, otherwise term is; -1 when the
\* delimiter is missing
StringEnd(cmd, q, at, term) ==
    IF at
    THEN IF At(cmd, q) = "" THEN -1
         ELSE Bind(Index(cmd, At(cmd, q), q + 1), LAMBDA e : IF e < 0 THEN -1 ELSE e + 1)
    ELSE Bind(Index(cmd, term, q), LAMBDA e : IF e < 0 THEN -1 ELSE e + 1)

\* the position after the pair of string arguments that starts at position q
StringsEnd(cmd, q, at) ==
    Bind(StringEnd(cmd, q, at, ESC), LAMBDA e :
        IF e < 0 THEN -1 ELSE StringEnd(cmd, e, FALSE, IF at THEN At(cmd, q) ELSE ESC))

\* the position after the Q-register name that starts at position q
NameEnd(cmd, q) ==
    IF At(cmd, q) = "" THEN -1
    ELSE IF At(cmd, q) # "." THEN q + 1
    ELSE IF At(cmd, q + 1) = "" THEN -1 ELSE q + 2

\* the position after the command at position p, which is neither < nor >;
\* -1 when the command is incomplete
CommandEnd(cmd, p, at) ==
    Bind(<<lower(At(cmd, p)), lower(At(cmd, p + 1))>>, LAMBDA cc :
    LET c  == cc[1]
        c2 == cc[2]
    IN  CASE c = "" -> -1
          [] c \in {"i", TAB, "s", "n", "_", "o"} -> StringEnd(cmd, p + 1, at, ESC)
          [] c = CTRLA -> StringEnd(cmd, p + 1, at, CTRLA)
          [] c = "!" -> StringEnd(cmd, p + 1, at, "!")
          [] c = CTRLU ->
               Bind(NameEnd(cmd, p + 1), LAMBDA q :
                   IF q < 0 THEN -1 ELSE StringEnd(cmd, q, at, ESC))
          [] c = "^" ->
               CASE c2 = "" -> -1
                 [] c2 = "i" -> StringEnd(cmd, p + 2, at, ESC)
                 [] c2 = "a" -> StringEnd(cmd, p + 2, at, CTRLA)
                 [] c2 = "u" ->
                      Bind(NameEnd(cmd, p + 2), LAMBDA q :
                          IF q < 0 THEN -1 ELSE StringEnd(cmd, q, at, ESC))
                 [] c2 = "^" -> IF At(cmd, p + 2) = "" THEN -1 ELSE p + 3
                 [] OTHER -> p + 2
          [] c = "f" ->
               CASE c2 = "" -> -1
                 [] c2 \in {"s", "n", "_", "c"} -> StringsEnd(cmd, p + 2, at)
                 [] c2 \in {"b", "r"} -> StringEnd(cmd, p + 2, at, ESC)
                 [] OTHER -> p + 2
          [] c = "e" ->
               CASE c2 = "" -> -1
                 [] c2 \in {"b", "g", "i", "n", "r", "w", "_"} ->
                      StringEnd(cmd, p + 2, at, ESC)
                 [] OTHER -> p + 2
          [] c \in {CTRLCARET, "\""} -> IF At(cmd, p + 1) = "" THEN -1 ELSE p + 2
          [] c \in {"[", "]", "%", "g", "m", "q", "u", "x"} -> NameEnd(cmd, p + 1)
          [] OTHER -> p + 1)

\* the command at position p takes the @ modifier
TakesAt(cmd, p) ==
    \/ lower(At(cmd, p)) \in {"i", TAB, "s", "n", "_", "o", CTRLA, CTRLU, "!"}
    \/ lower(At(cmd, p)) = "^" /\ lower(At(cmd, p + 1)) \in {"i", "a", "u"}
    \/ lower(At(cmd, p)) = "f" /\ lower(At(cmd, p + 1)) \in {"s", "n", "_", "c", "b", "r"}
    \/ lower(At(cmd, p)) = "e" /\ lower(At(cmd, p + 1)) \in {"b", "g", "i", "n", "r", "w", "_"}

\* the position after the > that ends the iteration whose body holds
\* position p, level iterations being open between the two; at tells that
\* an @ modifier is pending.  -1 when there is no such >, and when an @ is
\* followed by a command that takes none
RECURSIVE IterationEnd(_, _, _, _)
IterationEnd(cmd, p, at, level) ==
    Bind(At(cmd, p), LAMBDA c :
        IF c = "" THEN -1
        ELSE IF c = "@" THEN IterationEnd(cmd, p + 1, TRUE, level)
        ELSE IF c = ":" THEN IterationEnd(cmd, p + 1, at, level)
        ELSE IF at /\ ~TakesAt(cmd, p) THEN -1
        ELSE IF c = "<" THEN IterationEnd(cmd, p + 1, FALSE, level + 1)
        ELSE IF c = ">"
        THEN IF level = 0 THEN p + 1 ELSE IterationEnd(cmd, p + 1, FALSE, level - 1)
        ELSE Bind(CommandEnd(cmd, p, at), LAMBDA e :
                 IF e < 0 THEN -1 ELSE IterationEnd(cmd, e, FALSE, level)))

\* the command about to run skips to the end of an iteration: a ; that
\* leaves the iteration, or a < whose count is not positive
SkipsIteration ==
    /\ Running
    /\ \/ /\ C0 = ";"
          /\ iterstack(Work) # <<>>
          /\ ~Failed(getargE(M0, ";", "NAS"))
          /\ teco.colons # 0 <=> getargE(M0, ";", "NAS").ret[1] < 0
       \/ /\ C0 = "<"
          /\ ~Failed(getarg(M0, "<"))
          /\ getarg(M0, "<").ret # None
          /\ getarg(M0, "<").ret[1] <= 0

\* C2: a skip of an iteration resumes immediately after the real matching >,
\* whatever <, >, ", ', | or ! the string arguments of the body hold
C2_SkipResumesAfterMatch ==
    [][SkipsIteration /\ IterationEnd(command(Work), cmdpos(Work) + 1, FALSE, 0) >= 0
       => /\ mode' = "run"
          /\ Len(levels') = Len(levels)
          /\ levels'[Len(levels)].cmdpos = IterationEnd(command(Work), cmdpos(Work) + 1, FALSE, 0)]_vars

----------------------------------------------------------------------------
(* Properties of the searches *)

\* the search command about to run, "" when the command is no search
SearchName ==
    IF ~Running THEN ""
    ELSE IF C0 \in {"s", "n", "_"} THEN C0
    ELSE IF C0 = "e" /\ C1 = "_" THEN "e_"
    ELSE IF C0 = "f" /\ C1 = "s" THEN "fs"
    ELSE IF C0 = "f" /\ C1 = "n" THEN "fn"
    ELSE IF C0 = "f" /\ C1 = "_" THEN "f_"
    ELSE IF C0 = "f" /\ C1 = "b" THEN "fb"
    ELSE IF C0 = "f" /\ C1 = "c" THEN "fc"
    ELSE ""

\* the working state its handler returns
SearchResult ==
    CASE SearchName \in {"s", "n", "_"} -> cmd_s(M0, C0)
      [] SearchName = "e_" -> EWrap(cmd_s(M00, "e_"))
      [] SearchName \in {"fs", "fn", "f_"} -> FWrap(cmd_fs(M00, SearchName))
      [] SearchName = "fb" -> FWrap(cmd_fb(M00, "fb"))
      [] SearchName = "fc" -> FWrap(cmd_fc(M00, "fc"))

\* the numeric argument of the command about to run
NumArg == teco_getarg(Work, C0)

\* the search command has its string arguments and a count, so that its
\* handler reaches search ()
SearchIsCalled ==
    /\ SearchName # ""
    /\ CommandEnd(command(Work), cmdpos(Work), teco.atmod) >= 0
    /\ ~Failed(NumArg)
    /\ IF SearchName \in {"fb", "fc"} THEN NumArg.ret # None ELSE NumArg.ret # Some(0)

\* the search finds no match
SearchFails ==
    /\ SearchIsCalled
    /\ ~SearchResult.ok
    /\ SearchResult.err \in {"", "SRH", "UTC"}

\* the search reads no page of the input file
NoPaging == SearchName \in {"s", "fs", "fb", "fc"} \/ _eoflag(Work) # 0

\* reset-on-fail applies: not a :: match, not a 0,n bounded search, not FB, FC
ResetOnFail ==
    /\ teco.colons < 2
    /\ teco.arg2 # Some(0)
    /\ SearchName \notin {"fb", "fc"}

\* the search string of an S command, built; the string of the last search
\* when the argument is empty
SString ==
    LET M1 == strarg(M0, "s", ESC)
    IN  IF M1.str = <<>> THEN teco.lastsearch ELSE strbuild(M1, M1.str).str

\* the end of the n-th occurrence of the pattern re in buf, the first sought
\* from pos and each other from the end of the one before; -1 when there are
\* fewer than n
RECURSIVE NthEnd(_, _, _, _, _)
NthEnd(re, buf, pos, n, icase) ==
    Bind({p \in pos .. Len(buf) : MatchAt(re, buf, p, icase)}, LAMBDA P :
        IF P = {} THEN -1
        ELSE IF n = 1 THEN Min(P) + Len(re)
        ELSE NthEnd(re, buf, Min(P) + Len(re), n - 1, icase))

\* an S command with a count n > 0, from dot to the end of the buffer
ForwardS ==
    /\ SearchName = "s"
    /\ SearchIsCalled
    /\ teco.arg2 = None
    /\ teco.colons < 2
    /\ NumArg.ret = None \/ NumArg.ret[1] > 0
    /\ ~Failed(strbuild(M0, strarg(M0, "s", ESC).str))
    /\ SString # <<>>

\* the end of the occurrence a forward S is to find
ForwardSEnd ==
    NthEnd(str2re(SString), buffer.text, buffer.dot,
           IF NumArg.ret = None THEN 1 ELSE NumArg.ret[1], teco.ctrlx = 0)

\* C3: a forward nS finds the n-th occurrence at or after dot, each sought
\* from the end of the one before: dot is its end and ^S minus its length;
\* with fewer than n occurrences the search fails
C3_ForwardNth ==
    [][ForwardS =>
        IF ForwardSEnd >= 0
        THEN /\ mode' = "run"
             /\ buffer'.dot = ForwardSEnd
             /\ teco'.laststringlen = -Len(str2re(SString))
        ELSE IF teco.colons # 0 THEN teco'.num = Some(0)
        ELSE iterstack(Work) = <<>> => preverror' = "SRH"]_vars

\* what a failing search outside an iteration leaves
FailureOutsideIteration ==
    /\ IF teco.colons # 0
       THEN mode' = "run" /\ teco'.num = Some(0)
       ELSE mode' = "prompt" /\ preverror' = "SRH"
    /\ buffer'.text = buffer.text
    /\ buffer'.dot = IF ResetOnFail /\ BitAnd(teco.ed, 16) = 0 THEN 0 ELSE buffer.dot

SearchEnd == CommandEnd(command(Work), cmdpos(Work), teco.atmod)

\* C5: a search without colon that fails inside an iteration raises no
\* error: the frame of the innermost iteration is popped and execution
\* resumes immediately after its matching >
C5_FailureExitsIteration ==
    [][/\ SearchFails
       /\ iterstack(Work) # <<>>
       /\ teco.colons = 0
       /\ At(command(Work), SearchEnd) # ";"
       /\ IterationEnd(command(Work), SearchEnd, FALSE, 0) >= 0
       => /\ mode' = "run"
          /\ Len(levels') = Len(levels)
          /\ levels'[Len(levels)].iterstack = SubSeq(iterstack(Work), 1, Len(iterstack(Work)) - 1)
          /\ levels'[Len(levels)].cmdpos = IterationEnd(command(Work), SearchEnd, FALSE, 0)]_vars

\* C6: Iabcabc$J<Sb$;> moves dot to 2 and to 5; the third search fails,
\* which resets dot to 0 and gives ; the value 0, so the iteration ends
\* with no error and dot = 0.  With blanks between the commands, as the
\* scenario is printed, the first ; has no value and fails NAS with dot = 2
C6_Scenario3 ==
    /\ (mode = "run" /\ command(Work) = Scenario3Compact /\ Running /\ C0 = ";")
          => \/ buffer.dot \in {2, 5} /\ teco.num = Some(-1)
             \/ buffer.dot = 0 /\ teco.num = Some(0)
    /\ (mode = "prompt" /\ levels[1].command = Scenario3Compact)
          => /\ preverror = ""
             /\ buffer.text = <<"a", "b", "c", "a", "b", "c">>
             /\ buffer.dot = 0
    /\ (mode = "prompt" /\ levels[1].command = Scenario3)
          => preverror = "NAS" /\ buffer.dot = 2

\* C6 as the specification states it: the scenario ends with no error and
\* dot = 5
C6_FinalDotFive ==
    (mode = "prompt" /\ levels[1].command \in {Scenario3, Scenario3Compact})
       => preverror = "" /\ buffer.dot = 5

\* C6: the scenario has run to its end
C6_Witness ==
    /\ mode = "prompt"
    /\ levels[1].command = Scenario3Compact
    /\ preverror = ""
    /\ buffer.dot = 0

----------------------------------------------------------------------------
(* Properties of the Q-registers, the macros and the Q-register stack *)

\* the register called name, in the global dictionary or the local one
RegisterIn(globals, locals, name) ==
    LET d == IF Len(name) = 1 THEN globals ELSE locals
        k == name[Len(name)]
    IN  IF k \in DOMAIN d THEN d[k] ELSE qreg_init

\* the name after the command about to run, and whether it is legal
NameOf(M) == qregname(M).str
LegalName(M) == ~Failed(qregname(M)) /\ isalnum(NameOf(M)[Len(NameOf(M))])

\* C7: a macro called with M runs with the local registers of its caller,
\* one called with :M with local registers of its own, none set
C7_MacroScope ==
    [][Running /\ C0 = "m" /\ Len(levels) < MaxDepth /\ LegalName(M0)
       => /\ mode' = "run"
          /\ Len(levels') = Len(levels) + 1
          /\ IF teco.colons # 0
             THEN /\ \A i \in 1 .. Len(levels) : levels[i].qregs # levels'[Len(levels')].qregs
                  /\ scopes'[levels'[Len(levels')].qregs] = EmptyDict
             ELSE levels'[Len(levels')].qregs = Cur(Work).qregs]_vars

\* every register but the one called name is the same after the step
OthersUnchanged(name) ==
    /\ Len(scopes') = Len(scopes)
    /\ \A i \in 1 .. Len(scopes) :
          /\ DOMAIN scopes[i] \subseteq DOMAIN scopes'[i]
          /\ \A k \in DOMAIN scopes[i] :
                (Len(name) = 1 \/ k # name[2] \/ i # Cur(Work).qregs) => scopes'[i][k] = scopes[i][k]
    /\ DOMAIN teco.qregs \subseteq DOMAIN teco'.qregs
    /\ \A k \in DOMAIN teco.qregs :
          (Len(name) = 2 \/ k # name[1]) => teco'.qregs[k] = teco.qregs[k]

\* C8: [q adds the number and text of q to the stack; ]r takes the entry
\* added last and makes it r, leaving every other register as it was; no
\* other command changes the stack, and U and ^U change the named register
\* only
C8_StackByValueLifo ==
    [][/\ (Running /\ C0 = "[" /\ LegalName(M0))
          => teco'.qstack = Append(teco.qstack,
                                   RegisterIn(teco.qregs, scopes[Cur(Work).qregs], NameOf(M0)))
       /\ (Running /\ C0 = "]" /\ teco.qstack # <<>> /\ LegalName(M0))
          => /\ teco'.qstack = SubSeq(teco.qstack, 1, Len(teco.qstack) - 1)
             /\ RegisterIn(teco'.qregs, scopes'[Cur(Work).qregs], NameOf(M0))
                   = teco.qstack[Len(teco.qstack)]
             /\ OthersUnchanged(NameOf(M0))
       /\ (Running /\ C0 = "u" /\ LegalName(M0))
          => OthersUnchanged(NameOf(M0)) \/ mode' = "prompt"
       /\ (IsCtl(CTRLU) /\ LegalName(MC))
          => OthersUnchanged(NameOf(MC)) \/ mode' = "prompt"
       /\ ~(Running /\ C0 \in {"[", "]"})
          => teco'.qstack = teco.qstack]_vars

\* C8: 1Ua ^Uax$ [a 2Ua ^Uay$ ]b has run: b is what a was when pushed
C8_Witness ==
    /\ mode = "prompt"
    /\ teco.qstack = <<>>
    /\ DOMAIN teco.qregs = {"a", "b"}
    /\ teco.qregs["a"] = [num |-> 2, text |-> <<"y">>]
    /\ teco.qregs["b"] = [num |-> 1, text |-> <<"x">>]

\* C9: with the stack empty, ]q fails PES and :]q, the name q included,
\* yields 0 with no error; both leave every register unchanged.  With an
\* entry on the stack :]q yields -1
C9_PopEmptyStack ==
    [][/\ (Running /\ C0 = "]" /\ teco.qstack = <<>> /\ LegalName(M0))
          => /\ teco'.qregs = teco.qregs
             /\ scopes'[1] = scopes[1]
             /\ IF teco.colons = 0
                THEN mode' = "prompt" /\ preverror' = "PES"
                ELSE /\ mode' = "run"
                     /\ teco'.num = Some(0)
                     /\ scopes' = scopes
                     /\ Len(levels') = Len(levels)
                     /\ levels'[Len(levels)].cmdpos = cmdpos(qregname(M0))
       /\ (Running /\ C0 = "]" /\ teco.qstack # <<>> /\ teco.colons # 0 /\ LegalName(M0))
          => mode' = "run" /\ teco'.num = Some(-1)]_vars

\* C10: the stack belongs to the teco object, not to a command level: when
\* a macro level ends, the stack is what the macro left
C10_StackOutlivesLevel ==
    [][mode = "run" /\ Len(levels) > 1 /\ cmdpos(Work) >= Len(command(Work))
       => /\ Len(levels') = Len(levels) - 1
          /\ teco'.qstack = teco.qstack]_vars

\* C10 as the specification states it, of the command line MacroPush whose
\* macro pushes b and whose interactive level pushes nothing: the stack is
\* empty whenever the interactive level runs
C10_StackReleasedAtExit ==
    (levels[1].command = MacroPush /\ mode = "run" /\ Len(levels) = 1)
       => teco.qstack = <<>>

\* C10: MacroPush has run: ]c in the caller took what [b in the macro pushed
C10_Witness ==
    /\ mode = "prompt"
    /\ levels[1].command = MacroPush
    /\ preverror = ""
    /\ "c" \in DOMAIN teco.qregs
    /\ teco.qregs["c"].num = 5
    /\ teco.qregs["b"].num = 0

----------------------------------------------------------------------------
(* Paging a file from input to output *)

\* two file contents are equal, or differ by one final newline
SameUpToFinalNewline(a, b) == a = b \/ a = b \o <<LF>> \/ b = a \o <<LF>>

\* ERsrc$ EWo$ <P ^N:;>: open src for input and o for output, then P until
\* ^N is non-zero
PageLoop(src) ==
    <<"E", "R">> \o src \o <<ESC, "E", "W", "o", ESC, "<", "P", "^", "N", ":", ";", ">">>

\* the command line PageLoop(src) followed by close has run without error
RoundTripDone(src, close) ==
    /\ mode = "prompt"
    /\ linenum = 1
    /\ preverror = ""
    /\ levels[1].command = PageLoop(src) \o close \o <<ESC, ESC>>

\* C11: for every input file, after ER, EW, P until ^N is non-zero and the
\* close of the output (EF or EC), the output file holds the content of the
\* input file, up to a final newline: no page is lost and every form feed
\* is reproduced
C11_RoundTrip ==
    \A src \in DOMAIN InitialFiles : \A close \in {<<"E", "F">>, <<"E", "C">>} :
        RoundTripDone(src, close)
           => /\ <<"o">> \in DOMAIN files
              /\ SameUpToFinalNewline(files[<<"o">>], InitialFiles[src])

----------------------------------------------------------------------------
(* Output files and the end of the run *)

\* C12: when the interpreter has exited, no output slot holds an open
\* temporary file: each was closed and renamed (EF, EC, EX) or deleted (EK)
C12_NoOpenTemporaryAtExit ==
    mode = "exited" => \A k \in 1..2 : ~buffer.outputs[k].outfile

\* C13: EF closes the output only: the input streams, with their unread
\* pages and flags, are after EF what they were before
C13_EFKeepsInput ==
    [][Running /\ C0 = "e" /\ C1 = "f" => buffer'.inputs = buffer.inputs]_vars

----------------------------------------------------------------------------
(* Moves *)

\* the argument of the C, R or J command about to run, and its target
MotionArg == teco_getarg(M0, C0)
MotionTarget ==
    LET n == IF MotionArg.ret # None THEN MotionArg.ret[1]
             ELSE IF C0 = "j" THEN 0 ELSE 1
    IN  CASE C0 = "c" -> buffer.dot + n
          [] C0 = "r" -> buffer.dot - n
          [] C0 = "j" -> n

\* C14: nC, nR and nJ with a target outside [0, end] fail POP and leave dot
\* and the buffer unchanged; with a target inside they set dot to the target
C14_MotionsInRange ==
    [][Running /\ C0 \in {"c", "r", "j"} /\ ~Failed(MotionArg)
       => IF 0 <= MotionTarget /\ MotionTarget <= Len(buffer.text)
          THEN /\ mode' = "run"
               /\ buffer'.dot = MotionTarget
               /\ buffer'.text = buffer.text
          ELSE /\ mode' = "prompt"
               /\ preverror' = "POP"
               /\ buffer' = buffer]_vars

----------------------------------------------------------------------------
(* Errors and the expression state *)

\* the expression and modifier state is clear
ExpressionCleared ==
    /\ teco.opstack = <<>>
    /\ teco.arg = None
    /\ teco.arg2 = None
    /\ teco.num = None
    /\ teco.op = ""
    /\ teco.colons = 0
    /\ ~teco.atmod

\* C15: when a TECO error has brought control back to the main loop, at
\* whatever macro depth it was raised, the parenthesis stack is empty, arg,
\* arg2, num and op are unset, colons is 0 and the at-sign modifier is off
C15_ErrorClearsExpression ==
    (mode = "prompt" /\ preverror # "") => ExpressionCleared

\* C15: ErrorInMacro has run: S in the macro failed MRP with a second
\* argument, an open parenthesis, a number and a colon pending
C15_Witness ==
    /\ mode = "prompt"
    /\ preverror = "MRP"
    /\ levels[1].command = ErrorInMacro
    /\ ExpressionCleared

----------------------------------------------------------------------------
(* The length of the last string *)

\* the string arguments of the search command about to run, its pattern and
\* its replacement
SearchArgs ==
    LET MS == IF C0 \in {"e", "f"} THEN M00 ELSE M0
    IN  IF SearchName \in {"fs", "fn", "f_", "fc"} THEN strargs(MS, SearchName)
        ELSE strarg(MS, SearchName, ESC)
SearchPattern ==
    LET raw == IF SearchName \in {"fs", "fn", "f_", "fc"}
               THEN SearchArgs.str[1] ELSE SearchArgs.str
    IN  str2re(IF raw = <<>> THEN teco.lastsearch ELSE strbuild(SearchArgs, raw).str)
Replacement == SearchArgs.str[2]

\* the search finds a match
SearchSucceeds == SearchIsCalled /\ SearchResult.ok /\ ~Failed(SearchResult)

\* the command about to run inserts text: I, tab, G without colon, n\
Inserting ==
    /\ Running
    /\ \/ C0 = "i"
       \/ IsCtl(TAB)
       \/ C0 = "g" /\ teco.colons = 0
       \/ C0 = BSL /\ ~Failed(getoptarg(M0, C0)) /\ getoptarg(M0, C0).ret # None

\* the text of the FR command about to run
FRText == strarg(M00, "fr", ESC)

----------------------------------------------------------------------------
(* Iterations *)

\* the count of the < command about to run
IterationCount == getarg(M0, "<")

\* the innermost iteration
InnerIteration == iterstack(Work)[Len(iterstack(Work))]

\* the level that runs is the same after the step, at the position p and
\* with the iteration stack st
ContinuesAt(p, st) ==
    /\ mode' = "run"
    /\ Len(levels') = Len(levels)
    /\ levels'[Len(levels)].cmdpos = p
    /\ levels'[Len(levels)].iterstack = st

\* C17: n< with n > 0 opens an iteration of n passes, each > ends a pass and
\* the last one closes the iteration and continues after it, so the body
\* runs n times; n< with n <= 0 runs nothing of the body and continues
\* after the matching >, the iteration stack being what it was; Scenario8
\* leaves ten stars
C17_CountedIteration ==
    [][/\ (Running /\ C0 = "<" /\ ~Failed(IterationCount) /\ IterationCount.ret # None)
          => IF IterationCount.ret[1] > 0
             THEN ContinuesAt(cmdpos(Work) + 1,
                              Append(iterstack(Work),
                                     [start |-> cmdpos(Work) + 1,
                                      count |-> IterationCount.ret[1]]))
             ELSE IterationEnd(command(Work), cmdpos(Work) + 1, FALSE, 0) >= 0
                  => /\ ContinuesAt(IterationEnd(command(Work), cmdpos(Work) + 1, FALSE, 0),
                                    iterstack(Work))
                     /\ buffer' = buffer
       /\ (Running /\ C0 = ">" /\ iterstack(Work) # <<>> /\ InnerIteration.count > 0)
          => IF InnerIteration.count = 1
             THEN ContinuesAt(cmdpos(Work) + 1,
                              SubSeq(iterstack(Work), 1, Len(iterstack(Work)) - 1))
             ELSE ContinuesAt(InnerIteration.start,
                              [iterstack(Work) EXCEPT ![Len(iterstack(Work))].count =
                                  InnerIteration.count - 1])
       /\ (levels[1].command = Scenario8 /\ mode' = "prompt")
          => /\ preverror' = ""
             /\ buffer'.text = [i \in 1..10 |-> "*"]]_vars

\* the argument of the ; command about to run
ExitArg == teco_getarg(M0, ";")

\* C18: n; in an iteration leaves the innermost iteration when n >= 0, n:;
\* when n < 0: its frame is popped, the frames around it stay, and the run
\* continues after the > that matches its <; otherwise the run continues
\* after the ;.  Outside an iteration ; fails SNI, without an argument it
\* fails NAS, and the iteration stack stays as it is
C18_SemicolonExit ==
    [][Running /\ C0 = ";" /\ ~Failed(ExitArg)
       => IF ExitArg.ret = None \/ iterstack(Work) = <<>>
          THEN /\ mode' = "prompt"
               /\ preverror' = IF ExitArg.ret = None THEN "NAS" ELSE "SNI"
               /\ levels'[1].iterstack = levels[1].iterstack
          ELSE IF teco.colons # 0 <=> ExitArg.ret[1] < 0
          THEN IterationEnd(command(Work), cmdpos(Work) + 1, FALSE, 0) >= 0
               => ContinuesAt(IterationEnd(command(Work), cmdpos(Work) + 1, FALSE, 0),
                              SubSeq(iterstack(Work), 1, Len(iterstack(Work)) - 1))
          ELSE ContinuesAt(cmdpos(Work) + 1, iterstack(Work))]_vars

----------------------------------------------------------------------------
(* Conditionals *)

\* the text empty, and the text full
TextEmpty == <<"e", "m", "p", "t", "y">>
TextFull == <<"f", "u", "l", "l">>

\* C19: Scenario6 sets the text of register 1 and leaves its number 0, so
\* Q1"E holds and Q1"N does not: the buffer is afterwards exactly empty
C19_Scenario6InsertsEmpty ==
    (mode = "prompt" /\ linenum = 1 /\ levels[1].command = Scenario6)
       => /\ preverror = ""
          /\ buffer.text = TextEmpty
          /\ teco.qregs["1"] = [num |-> 0, text |-> <<"h", "e", "l", "l", "o">>]

\* C19 as the specification states it: the buffer is afterwards exactly full
C19_Scenario6InsertsFull ==
    (mode = "prompt" /\ linenum = 1 /\ levels[1].command = Scenario6)
       => buffer.text = TextFull

\* C19: Scenario6 has run
C19_Witness ==
    /\ mode = "prompt"
    /\ linenum = 1
    /\ levels[1].command = Scenario6
    /\ buffer.text = TextEmpty

----------------------------------------------------------------------------
(* Search and replace *)

\* the start of the text that FS replaced
ReplacedAt == buffer'.dot - Len(Replacement)

\* C20: a successful FS replaces the matched occurrence of its first string
\* by its second: the text before and after the match is unchanged, dot is
\* after the replacement and ^S is minus its length; the first occurrence
\* at or after dot is the one replaced when the search is forward with no
\* count; a failing FS leaves the text unchanged.  Scenario7 leaves bazbar
\* and dot = 3
C20_ReplaceMatched ==
    [][/\ (SearchIsCalled /\ SearchName = "fs")
          => IF SearchSucceeds
             THEN /\ MatchAt(SearchPattern, buffer.text, ReplacedAt, teco.ctrlx = 0)
                  /\ buffer'.text = Slice(buffer.text, 0, ReplacedAt) \o Replacement
                                       \o SliceFrom(buffer.text, ReplacedAt + Len(SearchPattern))
                  /\ teco'.laststringlen = -Len(Replacement)
                  /\ (NumArg.ret = None /\ teco.arg2 = None /\ teco.colons < 2)
                     => ReplacedAt = Min({p \in buffer.dot .. Len(buffer.text) :
                                            MatchAt(SearchPattern, buffer.text, p, teco.ctrlx = 0)})
             ELSE buffer'.text = buffer.text
       /\ (SearchIsCalled /\ SearchName = "fs" /\ levels[1].command = Scenario7)
          => /\ buffer'.text = <<"b", "a", "z", "b", "a", "r">>
             /\ buffer'.dot = 3]_vars

\* C20: Scenario7 has run
C20_Witness ==
    /\ mode = "prompt"
    /\ levels[1].command = Scenario7
    /\ preverror = ""
    /\ buffer.text = <<"b", "a", "z", "b", "a", "r">>
    /\ buffer.dot = 3
    /\ teco.laststringlen = -3

----------------------------------------------------------------------------
(* Empty command strings *)

\* the number and text of the register name of the dictionary dict: a
\* register that was never set holds the number 0 and the empty text
ValueIn(dict, name) ==
    IF name \in DOMAIN dict THEN dict[name] ELSE [num |-> 0, text |-> <<>>]

\* the dictionaries d and e hold the same number and text in every register
SameRegisters(d, e) ==
    \A name \in DOMAIN d \cup DOMAIN e : ValueIn(d, name) = ValueIn(e, name)

\* what an empty command string leaves as it is, the registers apart: the
\* text and dot, the register stack, the flags and the length of the last
\* string
Observed(t, b) ==
    <<b.text, b.dot, t.qstack, t.ed, t.eh, t.es, t.et, t.eu, t.ev,
      t.ctrlx, t.radix, t.trace, t.laststringlen>>

\* the M command about to run starts a level whose command string is empty
EmptyStarts ==
    /\ Running
    /\ C0 = "m"
    /\ mode' = "run"
    /\ Len(levels') = Len(levels) + 1
    /\ levels'[Len(levels')].command = <<>>

\* the level that runs has an empty command string, and returns
EmptyReturns ==
    /\ mode = "run"
    /\ Len(levels) > 1
    /\ command(Work) = <<>>

----------------------------------------------------------------------------
(* Yank *)

\* an output file is open in the current output slot, the buffer is not
\* empty and bit 2 of ED is clear
YankIsRefused ==
    /\ outfile(Work).outfile
    /\ buffer.text # <<>>
    /\ BitAnd(teco.ed, 2) = 0

\* the pages of the current input file not yet read
UnreadPages == infile(Work).pages

\* with an input file open, the yank about to run succeeds: the buffer is
\* the next page of the current input file, with its line ends as CR LF,
\* or empty when no page is left; that page is no longer unread; dot is 0
YankTakesPage ==
    /\ preverror' # "YCA"
    /\ infile(Work).exists
       => /\ mode' = "run"
          /\ buffer'.text = IF UnreadPages = <<>> THEN <<>> ELSE lf2crlf(Head(UnreadPages))
          /\ buffer'.dot = 0
          /\ buffer'.inputs[buffer'.istream + 1].pages =
                IF UnreadPages = <<>> THEN <<>> ELSE Tail(UnreadPages)
          /\ buffer'.istream = buffer.istream
          /\ buffer'.outputs = buffer.outputs

\* C22: Y fails YCA exactly when an output file is open in the current
\* output slot, the buffer is not empty and bit 2 of ED is clear, and then
\* the buffer and the input stream are unchanged; EY never fails YCA; a
\* yank that succeeds replaces the buffer by the next page and sets dot to 0
C22_YankProtected ==
    [][/\ (Running /\ C0 = "y")
          => IF YankIsRefused
             THEN /\ mode' = "prompt"
                  /\ preverror' = "YCA"
                  /\ buffer' = buffer
             ELSE YankTakesPage
       /\ (Running /\ C0 = "e" /\ C1 = "y") => YankTakesPage]_vars

\* C22: YankRefused has run: its second Y failed and the first page is
\* still in the buffer, the second still unread
C22_Witness ==
    /\ mode = "prompt"
    /\ levels[1].command = YankRefused
    /\ preverror = "YCA"
    /\ buffer.text = <<"a", "b">>
    /\ buffer.inputs[1].pages = <<<<"c", "b">>>>

----------------------------------------------------------------------------
(* Bit flags *)

\* the values of a signed word of 16 bits
Word16 == -32768 .. 32767

\* C23: the bit flags ED and ET are signed values of 16 bits: whatever the
\* arguments of the ED and ET commands that set them, the value stored is
\* in -32768 .. 32767
C23_FlagsSixteenBit == teco.ed \in Word16 /\ teco.et \in Word16


\* the command about to run reads the terminal, bit 15 of ET is set, and the
\* step ends with the code of ^C as its value: a ^C was typed and trapped
TrappedInterrupt ==
    /\ IsCtl(CTRLT) \/ (Running /\ C0 = "w")
    /\ BitAnd(teco.et, 32768) # 0
    /\ mode' = "run"
    /\ teco'.num = Some(3)

\* C24: the fixed bits of ET are set after every step, whatever the ET
\* commands, and a ^C that is trapped, in the terminal input of ^T or in
\* the insert loop of :W, clears bit 15 of ET and leaves its other bits
C24_FixedBitsKept ==
    [][/\ BitAnd(teco'.et, teco'.etfixed) = teco'.etfixed
       /\ TrappedInterrupt => teco'.et = BitAnd(teco.et, 32767)]_vars

----------------------------------------------------------------------------
(* Reverse searches *)

\* the end of the n-th occurrence of the pattern re in buf going back: the
\* first is the one that ends last at or before limit, each other the one
\* that ends last at or before the start of the one before; -1 when there
\* are fewer than n
RECURSIVE NthBack(_, _, _, _, _)
NthBack(re, buf, limit, n, icase) ==
    Bind({e \in Len(re) .. limit : MatchAt(re, buf, e - Len(re), icase)}, LAMBDA E :
        IF E = {} THEN -1
        ELSE IF n = 1 THEN Max(E)
        ELSE NthBack(re, buf, Max(E) - Len(re), n - 1, icase))

\* an S command with a count n < 0, from dot back to the start of the buffer
ReverseS ==
    /\ SearchName = "s"
    /\ SearchIsCalled
    /\ teco.arg2 = None
    /\ teco.colons < 2
    /\ NumArg.ret # None
    /\ NumArg.ret[1] < 0
    /\ ~Failed(strbuild(M0, strarg(M0, "s", ESC).str))
    /\ SString # <<>>

\* the end of the occurrence a reverse S is to find
ReverseSEnd ==
    NthBack(str2re(SString), buffer.text, buffer.dot, -NumArg.ret[1], teco.ctrlx = 0)

\* C25: a reverse search -nS from dot = d succeeds exactly when there are n
\* occurrences going back from d, the first ending at or before d and each
\* other ending at or before the start of the one before; dot is then the
\* end of the n-th and ^S minus its length, so that dot <= d.  With fewer
\* than n such occurrences the search fails: it gives the value 0 when it
\* has a colon, and the error SRH outside an iteration
C25_ReverseNearest ==
    [][ReverseS
       => IF ReverseSEnd >= 0
          THEN /\ mode' = "run"
               /\ buffer'.dot = ReverseSEnd
               /\ buffer'.dot <= buffer.dot
               /\ teco'.laststringlen = -Len(str2re(SString))
          ELSE IF teco.colons # 0 THEN mode' = "run" /\ teco'.num = Some(0)
          ELSE iterstack(Work) = <<>> => mode' = "prompt" /\ preverror' = "SRH"]_vars

----------------------------------------------------------------------------
(* Parentheses *)

OperatorChars == {"+", "-", "*", "/", "&", "#"}

\* the command line ends here with the error e
FailsWith(e) == mode' = "prompt" /\ preverror' = e

\* left op right, the left operand of a leading + or - being 0
Fold(left, op, right) ==
    LET l == IF left = None THEN 0 ELSE left[1]
    IN  CASE op = "+" -> l + right
          [] op = "-" -> l - right
          [] op = "*" -> l * right
          [] op = "/" -> IF (l >= 0) = (right > 0) \/ l % right = 0
                         THEN l \div right
                         ELSE -((-l) \div right) - 1
          [] op = "&" -> BitAnd(l, right)
          [] op = "#" -> BitOr(l, right)

\* the character before the command: what the parenthesised part ends in
PrevChar == At(command(Work), cmdpos(Work) - 1)

\* the value of the term that is complete at the command
TermValue ==
    IF teco.op = "" THEN teco.num[1] ELSE Fold(teco.arg, teco.op, teco.num[1])

\* the expression that was pending at the matching left parenthesis
PendingAtParen == teco.opstack[Len(teco.opstack)]

\* C26: with no open left parenthesis a right parenthesis fails MLP; after
\* an empty parenthesised part, as in (), or one that ends in an operator,
\* as in (5+), it fails NAP; after a complete term the value of the term is
\* the right operand of the expression that was pending at the left
\* parenthesis.  J, C and U, which retrieve their argument, fail MRP while a
\* left parenthesis is open
C26_Parentheses ==
    [][/\ (Running /\ C0 = ")")
          => IF teco.opstack = <<>> THEN FailsWith("MLP")
             ELSE IF PrevChar \in OperatorChars \cup {"("} THEN FailsWith("NAP")
             ELSE (teco.num # None /\ ~(teco.op = "/" /\ teco.num = Some(0)))
                  => /\ mode' = "run"
                     /\ teco'.num = Some(TermValue)
                     /\ teco'.arg = PendingAtParen.arg
                     /\ teco'.op = PendingAtParen.op
                     /\ teco'.opstack = SubSeq(teco.opstack, 1, Len(teco.opstack) - 1)
       /\ (Running /\ C0 \in {"j", "c", "u"} /\ teco.opstack # <<>>)
          => FailsWith("MRP")]_vars

----------------------------------------------------------------------------
(* Argument expressions *)

\* the largest q with q * b <= a when b > 0, and with q * b >= a when b < 0
FloorQuotient(a, b) ==
    LET m == IF a < 0 THEN -a ELSE a
    IN  CHOOSE q \in -m .. m :
            LET rest == a - q * b
            IN  IF b > 0 THEN 0 <= rest /\ rest < b ELSE b < rest /\ rest <= 0

\* left op right for an operator of an expression
Operate(left, op, right) ==
    CASE op = "+" -> left + right
      [] op = "-" -> left - right
      [] op = "*" -> left * right
      [] op = "/" -> FloorQuotient(left, right)
      [] op = "&" -> BitAnd(left, right)
      [] op = "#" -> BitOr(left, right)

\* what reading a part of an expression gives: whether the text is of the
\* grammar so far, the first error met from left to right, the value when
\* there is no error, and the place where the part ends
Ungrammatical == [ok |-> FALSE, err |-> "", val |-> 0, next |-> 0]
Read(err, val, next) == [ok |-> TRUE, err |-> err, val |-> val, next |-> next]

\* the place after the digits that start at s[i]
RECURSIVE NumberEnd(_, _)
NumberEnd(s, i) ==
    IF i <= Len(s) /\ s[i] \in DigitChars THEN NumberEnd(s, i + 1) ELSE i

\* the value of the digits s[i] .. s[j] in the radix r
RECURSIVE NumberValue(_, _, _, _)
NumberValue(s, i, j, r) ==
    IF j < i THEN 0 ELSE NumberValue(s, i, j - 1, r) * r + DigitVal(s[j])

RECURSIVE ReadTerm(_, _, _)
RECURSIVE ReadExpression(_, _, _)
RECURSIVE ReadOperations(_, _, _, _, _)

\* a term: a number in the radix r, or an expression in parentheses
ReadTerm(s, i, r) ==
    IF i > Len(s) THEN Ungrammatical
    ELSE IF s[i] = "("
    THEN LET e == ReadExpression(s, i + 1, r)
         IN  IF e.ok /\ e.next <= Len(s) /\ s[e.next] = ")"
             THEN [e EXCEPT !.next = e.next + 1]
             ELSE Ungrammatical
    ELSE IF s[i] \in DigitChars
    THEN LET j == NumberEnd(s, i)
         IN  IF \E k \in i .. j - 1 : DigitVal(s[k]) >= r
             THEN Read("ILN", 0, j)
             ELSE Read("", NumberValue(s, i, j - 1, r), j)
    ELSE Ungrammatical

\* op term op term ... applied from left to right to the value acc
ReadOperations(s, i, r, acc, err) ==
    IF i <= Len(s) /\ s[i] \in OperatorChars
    THEN LET t == ReadTerm(s, i + 1, r)
             e == IF err # "" THEN err
                  ELSE IF t.err # "" THEN t.err
                  ELSE IF s[i] = "/" /\ t.val = 0 THEN "ILL"
                  ELSE ""
         IN  IF ~t.ok THEN Ungrammatical
             ELSE ReadOperations(s, t.next, r,
                                 IF e # "" THEN 0 ELSE Operate(acc, s[i], t.val), e)
    ELSE Read(err, acc, i)

\* an expression: a term, or + or - with the left operand 0, and then
\* operations
ReadExpression(s, i, r) ==
    IF i <= Len(s) /\ s[i] \in {"+", "-"}
    THEN ReadOperations(s, i, r, 0, "")
    ELSE LET t == ReadTerm(s, i, r)
         IN  IF ~t.ok THEN Ungrammatical
             ELSE ReadOperations(s, t.next, r, t.val, t.err)

\* the first command line, when it has run: an expression, in octal after
\* ^O, and Ua, which stores the value of the expression in register a
ExpressionLine == levels[1].command
InOctal == Len(ExpressionLine) >= 2 /\ SubSeq(ExpressionLine, 1, 2) = <<"^", "O">>
ExpressionText ==
    SubSeq(ExpressionLine, IF InOctal THEN 3 ELSE 1, Len(ExpressionLine) - 4)
ExpressionRead == ReadExpression(ExpressionText, 1, IF InOctal THEN 8 ELSE 10)
ExpressionStored ==
    /\ mode = "prompt"
    /\ linenum = 1
    /\ Len(ExpressionLine) > 4
    /\ SubSeq(ExpressionLine, Len(ExpressionLine) - 3, Len(ExpressionLine))
          = <<"U", "a", ESC, ESC>>
    /\ ExpressionRead.ok
    /\ ExpressionRead.next = Len(ExpressionText) + 1

\* C27: the value of an expression t1 op1 t2 op2 ... tk is the operations
\* applied from left to right, with no precedence, / being the floor
\* division and the left operand of a leading + or - being 0; a division
\* by zero fails ILL and a digit that is not below the radix fails ILN
C27_LeftToRight ==
    ExpressionStored
    => IF ExpressionRead.err # ""
       THEN preverror = ExpressionRead.err
       ELSE preverror = "" /\ ValueIn(teco.qregs, "a").num = ExpressionRead.val

----------------------------------------------------------------------------
(* Conditions on a character *)

\* the " command with its argument n and the condition letter that follows
\* it, no expression being open
AtCondition == Running /\ C0 = "\"" /\ teco.opstack = <<>>
ConditionArg ==
    IF teco.op = "" THEN teco.num[1] ELSE Fold(teco.arg, teco.op, teco.num[1])
ConditionLetter == lower(At(command(Work), cmdpos(Work) + 1))
CharacterTests == {"a", "c", "d", "r", "v", "w"}

\* n is the code of a character that the test named by the letter accepts;
\* no n < 0 is the code of a character
CharacterTestHolds(letter, n) ==
    /\ n >= 0
    /\ CASE letter = "a" -> isalpha(chr(n))
         [] letter = "c" -> isalnum(chr(n)) \/ chr(n) \in {"$", ".", "_"}
         [] letter = "d" -> isdigit(chr(n))
         [] letter = "r" -> isalnum(chr(n))
         [] letter = "v" -> islower(chr(n))
         [] letter = "w" -> isupper(chr(n))

\* the true branch is taken: the commands go on right after the condition
\* letter; otherwise the commands are skipped up to the | or ' of the condition
TrueBranchTaken ==
    /\ mode' = "run"
    /\ Len(levels') = Len(levels)
    /\ levels'[Len(levels')].cmdpos = cmdpos(Work) + 2

\* C30: n"C takes its true branch exactly when n is the code of a
\* character that is alphanumeric or one of $ . _ -- so for n < 0 it does
\* not --, and the same with their own classes for n"A, n"D, n"R, n"V and
\* n"W; an unknown condition letter fails IQC and a " without an argument
\* fails NAQ
C30_CharacterTests ==
    [][AtCondition
       => IF teco.num = None THEN FailsWith("NAQ")
          ELSE /\ ConditionLetter \in CharacterTests
                  => (TrueBranchTaken <=> CharacterTestHolds(ConditionLetter, ConditionArg))
               /\ ConditionLetter = "z" => FailsWith("IQC")]_vars

----------------------------------------------------------------------------
(* Typing a command line.  mainloop calls teco_cmdstring, which reads the    *)
(* terminal a character at a time until it has a command line to return.     *)

\* rubchr on a system without msvcrt
rubchr == DEL

\* the characters typed at the terminal, and how many of them for a line
TypedChars == {"a", "*", "?", " ", ESC, BEL, CTRLU, DEL, BS, LF, CR}
MaxTyped == 4

\* buf[:-1]
ButLast(buf) == SubSeq(buf, 1, Len(buf) - 1)

\* ^U: buf up to and with its last line feed, nothing of it without one
KillLine(buf) ==
    IF \E i \in 1 .. Len(buf) : buf[i] = LF
    THEN SubSeq(buf, 1, Max({i \in 1 .. Len(buf) : buf[i] = LF}))
    ELSE <<>>

\* return from teco_cmdstring
Returned(r, cmdline) == [r EXCEPT !.state = "returned", !.result = cmdline]

\* the end of an iteration of the loop of teco_cmdstring with the character
\* c, from the test c == esc on
EscapeOrText(r, c) ==
    IF c = ESC
    THEN IF r.escflag THEN Returned([r EXCEPT !.buf = Append(r.buf, ESC)], Append(r.buf, ESC))
         ELSE [r EXCEPT !.buf = Append(r.buf, ESC), !.escflag = TRUE]
    ELSE [r EXCEPT !.escflag = FALSE,
                   !.buf = IF c = CR THEN r.buf \o <<CR, LF>> ELSE Append(r.buf, c)]

\* the same from the test c == ctrlu on: ^U and rubout end the iteration
\* with continue, before the tests of esc
EditOrText(r, c) ==
    IF c = CTRLU THEN [r EXCEPT !.buf = KillLine(r.buf)]
    ELSE IF c = rubchr THEN [r EXCEPT !.buf = ButLast(r.buf)]
    ELSE EscapeOrText(r, c)

\* the same from the test c == bell on
BellOrText(r, c) ==
    IF c = BEL
    THEN IF r.bellflag THEN Returned(r, <<>>)
         ELSE EditOrText([r EXCEPT !.bellflag = TRUE], c)
    ELSE IF r.bellflag
    THEN IF c \in {" ", "*"}
         THEN [r EXCEPT !.bellflag = FALSE, !.buf = ButLast(r.buf)]
         ELSE EditOrText([r EXCEPT !.bellflag = FALSE], c)
    ELSE EditOrText(r, c)

\* one iteration of the loop of teco_cmdstring, no EI file being open: c is
\* typed, and c2 after a * that is the first character of the line
ReadChar(r, c, c2) ==
    IF r.immediate
    THEN IF c \in {BS, LF, "?"} THEN Returned(r, <<c>>)
         ELSE IF c = "*"
         THEN IF isalnum(c2) THEN Returned(r, <<"*", c2>>)
              ELSE BellOrText([r EXCEPT !.buf = <<"*">>, !.immediate = FALSE], c2)
         ELSE BellOrText([r EXCEPT !.immediate = FALSE], c)
    ELSE BellOrText(r, c)

\* mainloop, from the top of its loop to the call of teco_cmdstring
teco_cmdstring_call ==
    /\ mode = "prompt"
    /\ reader.state = "idle"
    /\ linenum = 0
    /\ teco' = [teco EXCEPT !.et = BitAnd(teco.et, BitNot(128))]
    /\ reader' = [NotReading EXCEPT !.state = "reading", !.immediate = TRUE]
    /\ UNCHANGED <<buffer, levels, scopes, files, mode, preverror, linenum, display, searching>>

\* an iteration of the loop of teco_cmdstring
teco_cmdstring ==
    /\ reader.state = "reading"
    /\ \E c \in TypedChars :
       \E c2 \in IF reader.immediate /\ c = "*" THEN TypedChars ELSE {c} :
          LET keys == IF reader.immediate /\ c = "*" THEN <<c, c2>> ELSE <<c>>
          IN  /\ Len(reader.typed) + Len(keys) <= MaxTyped
              /\ reader' = [ReadChar(reader, c, c2) EXCEPT !.typed = reader.typed \o keys]
    /\ UNCHANGED <<teco, buffer, levels, scopes, files, mode, preverror, linenum, display, searching>>

\* mainloop, from the return of teco_cmdstring: an immediate action command
\* is handled, any other command line starts to run
mainloop_typed ==
    /\ reader.state = "returned"
    /\ LET cmdline == reader.result
           action == cmdline # <<>> /\ cmdline[Len(cmdline)] # ESC
           torun == IF ~action THEN cmdline
                    ELSE IF cmdline[1] = LF THEN <<"l", "t">>
                    ELSE <<"-", "l", "t">>
           M == clearargs(Work)
       IN  IF action /\ cmdline[1] = "*"
           THEN LET M1 == qreg_named(M, <<lower(cmdline[2])>>)
                    M2 == IF Failed(M1) THEN [M1 EXCEPT !.err = ""]
                          ELSE RegSet(M1, M1.reg,
                                      [RegVal(M1, M1.reg) EXCEPT !.text = levels[1].command])
                IN  /\ teco' = M2.t
                    /\ UNCHANGED <<levels, mode, preverror>>
           ELSE IF action /\ cmdline[1] = "?"
           THEN /\ teco' = M.t
                /\ UNCHANGED <<levels, mode, preverror>>
           ELSE /\ teco' = M.t
                /\ levels' = <<[levels[1] EXCEPT !.command = torun, !.cmdpos = 0,
                                                 !.iterstack = <<>>]>>
                /\ mode' = "run"
                /\ preverror' = ""
    /\ linenum' = linenum + 1
    /\ reader' = [reader EXCEPT !.state = "idle"]
    /\ UNCHANGED <<buffer, scopes, files, display, searching>>

TypingNext ==
    \/ teco_cmdstring_call
    \/ teco_cmdstring
    \/ mainloop_typed

TypingSpec == Init /\ [][TypingNext]_vars

\* the last two characters typed are ESC ESC
TwoEscapesTyped ==
    /\ Len(reader.typed) >= 2
    /\ SubSeq(reader.typed, Len(reader.typed) - 1, Len(reader.typed)) = <<ESC, ESC>>

\* teco_cmdstring has returned a command line that is no immediate action
\* command and not the empty line of ^G ^G
CommandSubmitted ==
    /\ reader.state = "returned"
    /\ reader.result # <<>>
    /\ reader.result[1] \notin {BS, LF, "?"}
    /\ ~(Len(reader.result) = 2 /\ reader.result[1] = "*" /\ isalnum(reader.result[2]))

\* C28: a command line is submitted only when two ESC are typed one right
\* after the other: the command line that is returned ends in ESC ESC, and
\* they are the last two characters typed -- an ESC that was followed by a
\* rubout, a ^U or any other character is not the first of the pair
C28_DoubleEscape ==
    CommandSubmitted
    => /\ Len(reader.result) >= 2
       /\ SubSeq(reader.result, Len(reader.result) - 1, Len(reader.result)) = <<ESC, ESC>>
       /\ TwoEscapesTyped

----------------------------------------------------------------------------
(* The display thread.  With wxPython the first thread of the process runs   *)
(* the wx main loop, whose paint events call screentext, and a second thread *)
(* runs the interpreter; both use the one buffer object, with no lock.       *)

\* the commands of the interpreter thread, and the length of the text
MaxCommands == 4
MaxShown == 3

\* (text, dot) of the buffer
View == <<buffer.text, buffer.dot>>

\* the interpreter thread has finished a command with the buffer b: the view
\* is one of a command boundary
AtBoundary(b) ==
    [display EXCEPT !.at = "command", !.commands = display.commands + 1,
                    !.last = <<b.text, b.dot>>,
                    !.boundaries = IF display.paint = "idle" THEN display.boundaries
                                   ELSE display.boundaries \cup {<<b.text, b.dot>>}]

BetweenCommands == display.at = "command" /\ display.commands < MaxCommands

\* W: startdisplay releases the first thread, which starts the display
startdisplay ==
    /\ BetweenCommands
    /\ wxpresent(Work)
    /\ ~display.running
    /\ display' = [AtBoundary(buffer) EXCEPT !.running = TRUE]
    /\ UNCHANGED <<teco, buffer, levels, scopes, files, mode, preverror, linenum, reader, searching>>

\* ERf$: an input file is opened
display_er ==
    /\ BetweenCommands
    /\ ~infile(Work).exists
    /\ LET M == er(Work, <<"f">>, FALSE)
       IN  /\ teco' = M.t
           /\ buffer' = M.b
           /\ display' = AtBoundary(M.b)
    /\ UNCHANGED <<levels, scopes, files, mode, preverror, linenum, reader, searching>>

\* buffer.insert, its first statement: self.text = ...
insert_text ==
    /\ BetweenCommands
    /\ Len(buffer.text) < MaxShown
    /\ \E text \in {<<"a">>, <<LF>>} :
          /\ buffer' = [buffer EXCEPT !.text = insert(Work, text).b.text]
          /\ display' = [display EXCEPT !.at = "insert", !.inserted = text]
    /\ UNCHANGED <<teco, levels, scopes, files, mode, preverror, linenum, reader, searching>>

\* buffer.insert, the rest: self.dot += len (text), self.laststringlen = ...
insert_dot ==
    /\ display.at = "insert"
    /\ LET b == [buffer EXCEPT !.dot = buffer.dot + Len(display.inserted)]
       IN  /\ buffer' = b
           /\ teco' = [teco EXCEPT !.laststringlen = -Len(display.inserted)]
           /\ display' = [AtBoundary(b) EXCEPT !.inserted = <<>>]
    /\ UNCHANGED <<levels, scopes, files, mode, preverror, linenum, reader, searching>>

\* buffer.delete of D
display_delete ==
    /\ BetweenCommands
    /\ buffer.dot < Len(buffer.text)
    /\ buffer' = delete(Work, 1).b
    /\ display' = AtBoundary(delete(Work, 1).b)
    /\ UNCHANGED <<teco, levels, scopes, files, mode, preverror, linenum, reader, searching>>

\* buffer.goto of J
display_goto ==
    /\ BetweenCommands
    /\ \E pos \in 0 .. Len(buffer.text) :
          /\ pos # buffer.dot
          /\ buffer' = goto(Work, pos).b
          /\ display' = AtBoundary(goto(Work, pos).b)
    /\ UNCHANGED <<teco, levels, scopes, files, mode, preverror, linenum, reader, searching>>

\* buffer.yank of EY, its first statement after the test: self.text = ""
yank_text ==
    /\ BetweenCommands
    /\ infile(Work).exists
    /\ buffer' = [buffer EXCEPT !.text = <<>>]
    /\ display' = [display EXCEPT !.at = "yank"]
    /\ UNCHANGED <<teco, levels, scopes, files, mode, preverror, linenum, reader, searching>>

\* buffer.yank: ret = self.append ()
yank_append ==
    /\ display.at = "yank"
    /\ buffer' = append(Work).b
    /\ display' = [display EXCEPT !.at = "yanked"]
    /\ UNCHANGED <<teco, levels, scopes, files, mode, preverror, linenum, reader, searching>>

\* buffer.yank: self.goto (0)
yank_goto ==
    /\ display.at = "yanked"
    /\ buffer' = goto(Work, 0).b
    /\ display' = AtBoundary(goto(Work, 0).b)
    /\ UNCHANGED <<teco, levels, scopes, files, mode, preverror, linenum, reader, searching>>

\* OnPaint calls screentext: curlinestart = self.buffer.line (0).  The views
\* of command boundaries are collected from here on, with the last before
OnPaint ==
    /\ display.running
    /\ display.paint = "idle"
    /\ display' = [display EXCEPT !.paint = "curcol", !.curlinestart = line(Work, 0),
                                  !.boundaries = {display.last}]
    /\ UNCHANGED <<teco, buffer, levels, scopes, files, mode, preverror, linenum, reader, searching>>

\* screentext: curcol = self.dot - curlinestart
screentext_curcol ==
    /\ display.paint = "curcol"
    /\ display' = [display EXCEPT !.paint = "line", !.dot = buffer.dot]
    /\ UNCHANGED <<teco, buffer, levels, scopes, files, mode, preverror, linenum, reader, searching>>

\* screentext: line = self.buf[curlinestart:self.buffer.line (1)], and the
\* lines around it from the same text
screentext_line ==
    /\ display.paint = "line"
    /\ display' = [display EXCEPT !.paint = "painted", !.text = buffer.text]
    /\ UNCHANGED <<teco, buffer, levels, scopes, files, mode, preverror, linenum, reader, searching>>

\* OnPaint returns
OnPaint_return ==
    /\ display.paint = "painted"
    /\ display' = [display EXCEPT !.paint = "idle", !.curlinestart = 0, !.dot = 0,
                                  !.text = <<>>, !.boundaries = {}]
    /\ UNCHANGED <<teco, buffer, levels, scopes, files, mode, preverror, linenum, reader, searching>>

DisplayNext ==
    \/ startdisplay
    \/ display_er
    \/ insert_text
    \/ insert_dot
    \/ display_delete
    \/ display_goto
    \/ yank_text
    \/ yank_append
    \/ yank_goto
    \/ OnPaint
    \/ screentext_curcol
    \/ screentext_line
    \/ OnPaint_return

DisplaySpec == Init /\ [][DisplayNext]_vars

\* C29: the text and dot that a repaint has read are consistent under every
\* interleaving with the commands of the interpreter: 0 <= dot <= |text|,
\* and the pair is the text and dot of a command boundary
C29_ConsistentView ==
    display.paint = "painted"
    => /\ 0 <= display.dot
       /\ display.dot <= Len(display.text)
       /\ <<display.text, display.dot>> \in display.boundaries


----------------------------------------------------------------------------
(* The computed goto.  n O t0,t1,...,tk $ with a numeric argument picks one *)
(* of the tags of the list.                                                  *)

\* an O command with a numeric argument, its list of tags and its number
OString == strarg(M0, "o", ESC)
OTags == strsplit(strbuild(OString, OString.str).str, ",")
ONumber == getarg(OString, "o").ret
ComputedGoto ==
    /\ Running
    /\ C0 = "o"
    /\ ~Failed(OString)
    /\ ~Failed(strbuild(OString, OString.str))
    /\ ~Failed(getarg(OString, "o"))
    /\ ONumber # None
    /\ OString.str # <<>>

\* the commands go on just after the label !tag!
LandsAfter(tag) ==
    LET p == levels'[Len(levels')].cmdpos
    IN  /\ Len(levels') = Len(levels)
        /\ Slice(command(Work), p - Len(tag) - 2, p) = <<"!">> \o tag \o <<"!">>

\* the commands go on just after the string argument of the O command
ContinuesAfterO ==
    /\ mode' = "run"
    /\ Len(levels') = Len(levels)
    /\ levels'[Len(levels')].cmdpos = cmdpos(OString)

\* C31: n O t0,t1,...,tk $ goes on after the label of the tag with index n,
\* counted from zero (2Ofoo,bar,baz$ goes to !baz!), unless the label is not
\* found; when n selects no tag of the list the commands go on after the O
\* command and nothing fails
C31_ComputedGoto ==
    [][ComputedGoto
       => IF ONumber[1] \in 0 .. (Len(OTags) - 1)
          THEN mode' = "run" => LandsAfter(OTags[ONumber[1] + 1])
          ELSE ContinuesAfterO]_vars


----------------------------------------------------------------------------
(* Numbers in the buffer.  n\ inserts the digits of n, \ reads a number at  *)
(* dot.                                                                      *)

\* a \ command and its argument, if it has one
BackslashArg == getoptarg(M0, BSL)
AtBackslash == Running /\ C0 = BSL /\ ~Failed(BackslashArg)

\* the buffer holds s before dot and is otherwise as it was
InsertedAtDot(s) ==
    /\ buffer'.text = Slice(buffer.text, 0, buffer.dot) \o s \o SliceFrom(buffer.text, buffer.dot)
    /\ buffer'.dot = buffer.dot + Len(s)

\* the number at dot: where its digits start and end
SignedAtDot == At(buffer.text, buffer.dot) \in {"+", "-"}
DigitsFrom == IF SignedAtDot THEN buffer.dot + 1 ELSE buffer.dot
DigitsTo == DigitsEnd(buffer.text, DigitsFrom, teco.radix)
NumberAtDot ==
    LET val == DigitsVal(Slice(buffer.text, DigitsFrom, DigitsTo), teco.radix)
    IN  IF At(buffer.text, buffer.dot) = "-" THEN -val ELSE val

\* C32: n\ inserts the digits of n in the current radix at dot, moves dot
\* past them and leaves the value of ^S as it was; \ without an argument
\* returns the optionally signed number that starts at dot and moves dot
\* past it, and returns 0 and leaves dot when no number starts there
C32_NumberConversion ==
    [][AtBackslash
       => IF BackslashArg.ret # None
          THEN /\ InsertedAtDot(DigitString(BackslashArg.ret[1], teco.radix))
               /\ teco'.laststringlen = teco.laststringlen
          ELSE /\ buffer'.text = buffer.text
               /\ IF DigitsTo = DigitsFrom
                  THEN teco'.num = Some(0) /\ buffer'.dot = buffer.dot
                  ELSE teco'.num = Some(NumberAtDot) /\ buffer'.dot = DigitsTo]_vars


----------------------------------------------------------------------------
(* Conditionals.  n"X A | B ' with conditionals nested in A and B.          *)

\* the position after the ' that ends the conditional whose part holds
\* position p -- after its | when orElse is set and the | comes first --,
\* depth conditionals being open between the two; at tells that an @
\* modifier is pending.  -1 when the command string ends before it, -2 when
\* an iteration bracket or a command that is not complete comes first
RECURSIVE ConditionalEnd(_, _, _, _, _)
ConditionalEnd(cmd, p, at, depth, orElse) ==
    Bind(At(cmd, p), LAMBDA c :
        IF c = "" THEN -1
        ELSE IF c = "@" THEN ConditionalEnd(cmd, p + 1, TRUE, depth, orElse)
        ELSE IF c = ":" THEN ConditionalEnd(cmd, p + 1, at, depth, orElse)
        ELSE IF at /\ ~TakesAt(cmd, p) THEN -2
        ELSE IF c \in {"<", ">"} THEN -2
        ELSE IF c = "\""
        THEN IF At(cmd, p + 1) = "" THEN -2
             ELSE ConditionalEnd(cmd, p + 2, FALSE, depth + 1, orElse)
        ELSE IF c = "'"
        THEN IF depth = 0 THEN p + 1 ELSE ConditionalEnd(cmd, p + 1, FALSE, depth - 1, orElse)
        ELSE IF c = "|"
        THEN IF depth = 0 /\ orElse THEN p + 1 ELSE ConditionalEnd(cmd, p + 1, FALSE, depth, orElse)
        ELSE Bind(CommandEnd(cmd, p, at), LAMBDA e :
                 IF e < 0 THEN -2 ELSE ConditionalEnd(cmd, e, FALSE, depth, orElse)))

\* the condition letters, and the test of the " command about to run
ConditionLetters ==
    {"a", "c", "d", "e", "f", "u", "=", "g", ">", "l", "s", "t", "<", "n", "r", "v", "w"}
ConditionTested == AtCondition /\ teco.num # None /\ ConditionLetter \in ConditionLetters
ConditionTest ==
    CondHolds(ConditionLetter, ConditionArg,
              IF 0 <= ConditionArg /\ ConditionArg < 1114112 THEN chr(ConditionArg) ELSE "")

\* where the part A of the conditional about to be tested ends, and where
\* the conditional ends whose | is about to run
ElseOrEnd == ConditionalEnd(command(Work), cmdpos(Work) + 2, FALSE, 0, TRUE)
EndAfterElse == ConditionalEnd(command(Work), cmdpos(Work) + 1, FALSE, 0, FALSE)
AtElse == Running /\ C0 = "|"

\* the commands go on at position p of the same command string
GoesOnAt(p) ==
    /\ mode' = "run"
    /\ Len(levels') = Len(levels)
    /\ levels'[Len(levels)].cmdpos = p

\* C33: in n"X A | B ' with conditionals properly nested in A and B and no
\* iteration bracket, a test that holds goes on with A and the | after A
\* goes on right after the closing '; a test that fails goes on with B,
\* right after the | of the conditional, or right after its ' when it has no
\* |; a conditional whose end is missing fails MAP
C33_OneBranch ==
    [][/\ ConditionTested /\ ConditionTest => TrueBranchTaken
       /\ ConditionTested /\ ~ConditionTest /\ ElseOrEnd >= 0 => GoesOnAt(ElseOrEnd)
       /\ ConditionTested /\ ~ConditionTest /\ ElseOrEnd = -1 => FailsWith("MAP")
       /\ AtElse /\ EndAfterElse >= 0 => GoesOnAt(EndAfterElse)
       /\ AtElse /\ EndAfterElse = -1 => FailsWith("MAP")]_vars


----------------------------------------------------------------------------
(* Flow commands.  F< and F> inside an iteration.                           *)

\* the flow command F followed by x is about to run; the innermost iteration
AtFlow(x) == Running /\ C0 = "f" /\ C1 = x
Innermost == iterstack(Work)[Len(iterstack(Work))]
InIteration == iterstack(Work) # <<>>

\* where the iteration ends whose body holds the F> about to run
FlowEnd == IterationEnd(command(Work), cmdpos(Work) + 2, FALSE, 0)

\* the iteration stack after the step: as it was, with one pass less to run
\* for the innermost iteration, without the innermost iteration
SameIterations == levels'[Len(levels)].iterstack = iterstack(Work)
OnePassLess ==
    levels'[Len(levels)].iterstack =
        [iterstack(Work) EXCEPT ![Len(iterstack(Work))].count = @ - 1]
InnermostLeft == levels'[Len(levels)].iterstack = iterstack(PopIter(Work))

\* C34: F< goes to the start of the body of the innermost iteration and
\* leaves its count; F> does what reaching the > does: a bounded iteration
\* has one pass less to run, after its last pass it is popped and the
\* commands go on after the matching >, otherwise, and for an unbounded
\* iteration always, they go on at the start of the body.  F< outside an
\* iteration fails BNI
C34_Flow ==
    [][/\ AtFlow("<") /\ InIteration => GoesOnAt(Innermost.start) /\ SameIterations
       /\ AtFlow("<") /\ ~InIteration => FailsWith("BNI")
       /\ AtFlow(">") /\ InIteration /\ Innermost.count = 0
          => GoesOnAt(Innermost.start) /\ SameIterations
       /\ AtFlow(">") /\ InIteration /\ Innermost.count > 1
          => GoesOnAt(Innermost.start) /\ OnePassLess
       /\ AtFlow(">") /\ InIteration /\ Innermost.count = 1 /\ FlowEnd >= 0
          => GoesOnAt(FlowEnd) /\ InnermostLeft]_vars


----------------------------------------------------------------------------
(* Tags.  O tag $ looks for the label !tag!.                                 *)

\* the search for the label of tag from position p on: level iterations
\* have been entered and not left, popped iterations that were open at p
\* have been left; at tells that an @ modifier is pending.  The result is
\* the position after the label and the number of iterations left: the first
\* label of the tag that lies in no iteration entered on the way.  The
\* position is -1 when the command string ends before, and -2 when a
\* command is not complete or an iteration entered on the way has no end
RECURSIVE TagSearch(_, _, _, _, _, _)
TagSearch(cmd, p, at, level, popped, tag) ==
    Bind(At(cmd, p), LAMBDA c :
        IF c = "" THEN <<IF level = 0 THEN -1 ELSE -2, popped>>
        ELSE IF c = "@" THEN TagSearch(cmd, p + 1, TRUE, level, popped, tag)
        ELSE IF c = ":" THEN TagSearch(cmd, p + 1, at, level, popped, tag)
        ELSE IF at /\ ~TakesAt(cmd, p) THEN <<-2, popped>>
        ELSE IF c = "<" THEN TagSearch(cmd, p + 1, FALSE, level + 1, popped, tag)
        ELSE IF c = ">"
        THEN IF level > 0 THEN TagSearch(cmd, p + 1, FALSE, level - 1, popped, tag)
             ELSE TagSearch(cmd, p + 1, FALSE, 0, popped + 1, tag)
        ELSE Bind(CommandEnd(cmd, p, at), LAMBDA e :
                 IF e < 0 THEN <<-2, popped>>
                 ELSE IF c = "!" /\ level = 0
                         /\ Slice(cmd, IF at THEN p + 2 ELSE p + 1, e - 1) = tag
                 THEN <<e, popped>>
                 ELSE TagSearch(cmd, e, FALSE, level, popped, tag)))

\* an O command without a numeric argument, and its tag
AtGoto ==
    /\ Running
    /\ C0 = "o"
    /\ ~Failed(OString)
    /\ ~Failed(strbuild(OString, OString.str))
    /\ ~Failed(getarg(OString, "o"))
    /\ ONumber = None
    /\ OString.str # <<>>
GotoTag == strbuild(OString, OString.str).str

\* the search of the O command about to run: from the start of the body of
\* the innermost iteration, from the start of the command string outside
GotoSearch ==
    TagSearch(command(Work), IF InIteration THEN Innermost.start ELSE 0, FALSE, 0, 0, GotoTag)

\* the iteration stack after the step is without its n innermost iterations
IterationsLeft(n) ==
    levels'[Len(levels)].iterstack = SubSeq(iterstack(Work), 1, Len(iterstack(Work)) - n)

\* C35: O tag $ outside an iteration looks for !tag! from the start of the
\* command string, inside an iteration from the start of the body of the
\* innermost iteration; the commands go on just after the first label that
\* lies in no iteration entered on the way, the iterations whose > is
\* crossed are popped, and without such a label the command fails TAG
C35_TagSearch ==
    [][AtGoto
       => /\ GotoSearch[1] >= 0 /\ GotoSearch[2] <= Len(iterstack(Work))
             => GoesOnAt(GotoSearch[1]) /\ IterationsLeft(GotoSearch[2])
          /\ GotoSearch[1] = -1 /\ GotoSearch[2] <= Len(iterstack(Work))
             => FailsWith("TAG")]_vars


----------------------------------------------------------------------------
(* The flags of the input stream.  ^E is the form feed flag and ^N the end  *)
(* of file flag of the input stream of the current slot.                     *)

\* the input stream of the current slot, before and after the step
CurrentInput == buffer.inputs[buffer.istream + 1]
NextInput == buffer'.inputs[buffer'.istream + 1]

\* the step opens an input file; the step reads a page of the open file;
\* the step reads where no page is left, and does not fail
OpensInput == Running /\ C0 = "e" /\ C1 \in {"r", "b"}
PageRead ==
    /\ Running
    /\ ~OpensInput
    /\ CurrentInput.infile
    /\ NextInput.infile
    /\ NextInput.infn = CurrentInput.infn
    /\ Len(NextInput.pages) < Len(CurrentInput.pages)
ReadAtEnd ==
    /\ Running
    /\ CurrentInput.infile
    /\ CurrentInput.pages = <<>>
    /\ \/ C0 = "y"
       \/ C0 = "e" /\ C1 = "y"
       \/ C0 = "a" /\ ~Failed(getarg(M0, "a")) /\ getarg(M0, "a").ret = None
    /\ mode' = "run"

\* the flags of the stream tell whether a page is left to read
FlagsDescribe(in) ==
    /\ in.ffflag # 0 <=> in.pages # <<>>
    /\ in.eoflag # 0 <=> in.pages = <<>>

\* C36: after a step that reads a page of the open input file, ^E is not 0
\* exactly when a page is left to read and ^N is not 0 exactly when none is
\* left; the two flags are never both not 0; a read where no page is left
\* adds no text, has the result 0 and leaves ^N set; without an open input
\* file in the current slot ^N is -1 and ^E is 0
C36_PageFlags ==
    [][/\ PageRead => FlagsDescribe(NextInput)
       /\ ~(NextInput.ffflag # 0 /\ NextInput.eoflag # 0)
       /\ ReadAtEnd
          => /\ NextInput.pages = <<>>
             /\ NextInput.eoflag # 0
             /\ NextInput.ffflag = 0
             /\ buffer'.text = IF C0 = "a" THEN buffer.text ELSE <<>>
             /\ C0 = "a" /\ teco.colons # 0 => teco'.num = Some(0)
       /\ IsCtl(CTRLN) /\ ~CurrentInput.infile => teco'.num = Some(-1)
       /\ IsCtl(CTRLE) /\ ~CurrentInput.infile => teco'.num = Some(0)
       /\ IsCtl(CTRLN) /\ CurrentInput.infile => teco'.num = Some(CurrentInput.eoflag)
       /\ IsCtl(CTRLE) /\ CurrentInput.infile => teco'.num = Some(CurrentInput.ffflag)]_vars

\* a page has been read and another page is left to read
C36_PageLeft ==
    /\ CurrentInput.infile
    /\ CurrentInput.pages # <<>>
    /\ CurrentInput.ffflag # 0
    /\ CurrentInput.eoflag = 0


----------------------------------------------------------------------------
(* The radix.                                                                *)

\* the ^R command about to run and its argument, if it has one
RadixArg == getoptarg(MC, CTRLR)
AtRadix == IsCtl(CTRLR) /\ ~Failed(RadixArg)

\* C37: the radix is 8, 10 or 16 before and after every step: ^D sets it to
\* 10, ^O to 8, n^R to n when n is 8, 10 or 16 and otherwise fails IRA and
\* leaves it; ^R without an argument returns the radix and leaves it, as
\* every other command does
C37_Radix ==
    [][/\ teco.radix \in {8, 10, 16}
       /\ teco'.radix \in {8, 10, 16}
       /\ IsCtl(CTRLD) => teco'.radix = 10
       /\ IsCtl(CTRLO) => teco'.radix = 8
       /\ AtRadix /\ RadixArg.ret # None
          => IF RadixArg.ret[1] \in {8, 10, 16}
             THEN teco'.radix = RadixArg.ret[1] /\ mode' = "run"
             ELSE FailsWith("IRA") /\ teco'.radix = teco.radix
       /\ AtRadix /\ RadixArg.ret = None
          => /\ teco'.num = Some(teco.radix)
             /\ teco'.radix = teco.radix
             /\ buffer' = buffer
             /\ mode' = "run"
       /\ ~(IsCtl(CTRLD) \/ IsCtl(CTRLO) \/ IsCtl(CTRLR)) => teco'.radix = teco.radix]_vars

\* n^R has set the radix to 16
C37_Hexadecimal == teco.radix = 16

----------------------------------------------------------------------------
(* The paging searches, one turn of the loop of search at a time.  The     *)
(* commands before and after the search run as in Spec; the search itself  *)
(* is entered by search_call, runs one turn of its while loop per step of  *)
(* search_loop, and ends by search_return.  The interpreter is one thread  *)
(* that runs until the command line is exhausted, so a step that can be    *)
(* taken is taken.                                                         *)

\* ERf$ EWo$ Y Nc$ $: found on the second page
PagingFound == <<"E", "R", "f", ESC, "E", "W", "o", ESC, "Y", "N", "c", ESC, ESC>>
\* ERf$ EWo$ Y :Nx$ $: no match on either page
PagingNotFound == <<"E", "R", "f", ESC, "E", "W", "o", ESC, "Y", ":", "N", "x", ESC, ESC>>
\* ERf$ Y Nc$ $: N without an output file
PagingNoOutput == <<"E", "R", "f", ESC, "Y", "N", "c", ESC, ESC>>
\* ERf$ EWo$ Y _c$ $: _ with a buffer to protect
PagingProtected == <<"E", "R", "f", ESC, "E", "W", "o", ESC, "Y", "_", "c", ESC, ESC>>
\* ERf$ _c$ $: _ from an empty buffer, found on the second page
PagingYank == <<"E", "R", "f", ESC, "_", "c", ESC, ESC>>
\* ERh$ EWo$ Y E_x$ $: E_ to the end of the file
PagingAlways == <<"E", "R", "h", ESC, "E", "W", "o", ESC, "Y", "E", "_", "x", ESC, ESC>>
\* ERk$ :_x$ $: two pages read, the last one empty
PagingEmptyPage == <<"E", "R", "k", ESC, ":", "_", "x", ESC, ESC>>
\* ERf$ EWo$ FNc$x$ $: found on the second page and replaced
PagingReplace == <<"E", "R", "f", ESC, "E", "W", "o", ESC, "F", "N", "c", ESC, "x", ESC, ESC>>
\* ERf$ :F_x$y$ $: no match
PagingReplaceNone == <<"E", "R", "f", ESC, ":", "F", "_", "x", ESC, "y", ESC, ESC>>
\* :Nx$ $: no input file
PagingNoInput == <<":", "N", "x", ESC, ESC>>
\* ERf$ EWo$ 2Nb$ $: the second match is looked for on the same page
PagingTwice == <<"E", "R", "f", ESC, "E", "W", "o", ESC, "2", "N", "b", ESC, ESC>>
\* ERg$ Y ZJ -Na$ $: a backward search, which never reads a page
PagingBackward == <<"E", "R", "g", ESC, "Y", "Z", "J", "-", "N", "a", ESC, ESC>>
\* ERf$ EWo$ <Nb$>$$: in an iteration, to the end of the file
PagingIteration == <<"E", "R", "f", ESC, "E", "W", "o", ESC, "<", "N", "b", ESC, ">", ESC, ESC>>

PagingPrograms == {PagingFound, PagingNotFound, PagingNoOutput, PagingProtected,
                   PagingYank, PagingAlways, PagingEmptyPage, PagingReplace,
                   PagingReplaceNone, PagingNoInput, PagingTwice, PagingBackward,
                   PagingIteration}

\* mainloop: one of the command lines above is read
mainloop_paging ==
    /\ mode = "prompt"
    /\ linenum = 0
    /\ \E cmdline \in PagingPrograms :
          /\ teco' = [clearargs(Work).t EXCEPT !.et = BitAnd(teco.et, BitNot(128))]
          /\ levels' = <<[levels[1] EXCEPT !.command = cmdline, !.cmdpos = 0,
                                           !.iterstack = <<>>]>>
    /\ preverror' = ""
    /\ mode' = "run"
    /\ linenum' = linenum + 1
    /\ UNCHANGED <<buffer, scopes, files, reader, display, searching>>

\* the search command about to run is one that calls search with a page
\* reader
PagingName == IF SearchName \in {"n", "_", "e_", "fn", "f_"} THEN SearchName ELSE ""

\* search, entered with the arguments in A.ret and stopped before its while
\* loop: the locals, the arguments colon and topiffail and the replacement
\* of the handler are left in M.ret
searchCall(A) ==
    Then(searchLocals(A, A.ret.s, A.ret.n, A.ret.start, A.ret.end, A.ret.np),
         LAMBDA M1 :
            [M1 EXCEPT !.ret = [L |-> M1.ret, col |-> A.ret.col,
                                topiffail |-> A.ret.topiffail,
                                replace |-> IF "replace" \in DOMAIN A.ret
                                            THEN A.ret.replace ELSE <<>>]])

\* its handler, up to the while loop of search
PagingCalled ==
    CASE PagingName \in {"n", "_"} -> Then(cmd_sArgs(M0, C0), searchCall)
      [] PagingName = "e_" -> EWrap(Then(cmd_sArgs(M00, "e_"), searchCall))
      [] PagingName \in {"fn", "f_"} -> FWrap(Then(cmd_fsArgs(M00, PagingName), searchCall))

\* the variables of a handler that has not returned
Keep(M) ==
    /\ teco' = M.t
    /\ buffer' = M.b
    /\ levels' = M.lv
    /\ scopes' = M.sc
    /\ files' = M.fs
    /\ UNCHANGED <<preverror, linenum, reader, display>>

\* the handler of a paging search runs up to the while loop of search
search_call ==
    /\ PagingName # ""
    /\ LET M == PagingCalled
       IN  IF Failed(M) THEN Commit(M)
           ELSE /\ Keep(M)
                /\ mode' = "search"
                /\ searching' =
                      [state |-> "loop", name |-> PagingName, L |-> M.ret.L,
                       col |-> M.ret.col, topiffail |-> M.ret.topiffail,
                       replace |-> M.ret.replace,
                       retries |-> 0]

\* one turn of the while loop of search
search_loop ==
    /\ mode = "search"
    /\ searching.state = "loop"
    /\ searching.L.rep # 0
    /\ LET S == SearchStep(Work, searching.L)
       IN  IF S.how = "raised"
           THEN /\ Committed(S.m)
                /\ searching' = NotSearching
           ELSE /\ Keep(S.m)
                /\ mode' = "search"
                /\ searching' = [searching EXCEPT
                      !.L = S.l,
                      !.state = IF S.how = "failed" THEN "failed" ELSE "loop",
                      !.retries = IF S.how = "paged" THEN @ + 1 ELSE @]

\* the working state the handler returns once the loop of search has ended
PagingReturned ==
    LET M1 == IF searching.state = "failed"
              THEN [Work EXCEPT !.ok = FALSE, !.ret = None]
              ELSE [Work EXCEPT !.ok = TRUE, !.ret = searching.L.match]
        M2 == searchEnd(M1, searching.L.re, searching.col, searching.topiffail)
    IN  IF searching.name \in {"fn", "f_"} /\ ~Failed(M2) /\ M2.ok
        THEN Replace(M2, searching.replace)
        ELSE M2

\* search returns, and the handler that called it
search_return ==
    /\ mode = "search"
    /\ searching.state = "failed" \/ searching.L.rep = 0
    /\ Committed(PagingReturned)
    /\ searching' = NotSearching

PagingNext ==
    \/ mainloop_paging
    \/ run_return
    \/ do_er
    \/ do_ew
    \/ do_y
    \/ do_z
    \/ do_j
    \/ do_digit
    \/ do_operator
    \/ do_char072
    \/ do_char074
    \/ do_char076
    \/ do_char033
    \/ search_call
    \/ search_loop
    \/ search_return

\* the loop of search is a sequential loop: a turn that can be taken is
\* taken, and so is the return
PagingSpec ==
    Init /\ [][PagingNext]_vars /\ WF_vars(search_loop) /\ WF_vars(search_return)

\* the loop of search is running
InSearch == mode = "search"

\* the step is a turn of the loop in which nextpage was called and returned
Retried == InSearch /\ mode' = "search" /\ searching'.retries = searching.retries + 1

\* the turn took exactly one page from the current input stream, and left
\* the other stream alone
OnePageTaken ==
    /\ buffer'.istream = buffer.istream
    /\ CurrentInput.pages # <<>>
    /\ NextInput.pages = Tail(CurrentInput.pages)
    /\ buffer'.inputs[2 - buffer.istream] = buffer.inputs[2 - buffer.istream]

\* the step ends the search without a match
PagingFails == InSearch /\ searching.state = "failed" /\ mode' # "search"

\* the step ends the search by an error of the page reader
PageReaderRaises == InSearch /\ searching.state = "loop" /\ searching.L.rep # 0
                    /\ mode' = "prompt"

\* the search fails as one that reads no page does: 0 for the colon form,
\* no error in an iteration, the error SRH otherwise
FailsAsOrdinary ==
    IF searching.col THEN mode' = "run" /\ preverror' = "" /\ teco'.num = Some(0)
    ELSE IF iterstack(Work) # <<>> THEN mode' = "run" /\ preverror' = ""
    ELSE mode' = "prompt" /\ preverror' = "SRH"

\* C38: a paging forward search (N, _, E_, FN, F_) always terminates.  A turn
\* of the loop of search that reads a further page is taken only while the
\* input is not at its end (^N is 0), and takes exactly one page from the
\* input stream; the search fails only with the input at its end or with no
\* input (^N is not 0), and then as an ordinary search does; the only errors
\* of the page reader are NFO, of N and FN without an output file, and YCA,
\* of _ and F_ with a buffer to protect; and a search that has entered its
\* loop leaves it.
C38_PagingTerminates ==
    /\ [][/\ Retried => _eoflag(Work) = 0 /\ OnePageTaken
          /\ PagingFails => (searching.L.nextpage # "" => _eoflag(Work) # 0) /\ FailsAsOrdinary
          /\ PageReaderRaises =>
                \/ /\ preverror' = "NFO"
                   /\ searching.name \in {"n", "fn"}
                   /\ ~buffer.outputs[buffer.ostream + 1].exists
                \/ /\ preverror' = "YCA"
                   /\ searching.name \in {"_", "f_"}
                   /\ buffer.outputs[buffer.ostream + 1].exists
                   /\ buffer.text # <<>>]_vars
    /\ (InSearch ~> ~InSearch)

\* a search has read two pages, the input is at its end, and the search is
\* about to fail
C38_TwoRetries ==
    /\ InSearch
    /\ searching.state = "failed"
    /\ searching.retries = 2
    /\ _eoflag(Work) # 0

----------------------------------------------------------------------------
(* A pop that fails *)

\* the command about to run is ], with or without a colon
AtPop == Running /\ C0 = "]"

\* the ] raises one of the errors of a pop: PES on an empty stack, IQN for
\* an illegal register name, UTC when the command string ends before the
\* name
PopFails == AtPop /\ (FailsWith("PES") \/ FailsWith("IQN") \/ FailsWith("UTC"))

\* C39: a pop that fails leaves the register stack unchanged: after a ]
\* that raises PES, IQN or UTC the stack has the same entries in the same
\* order as before the command
C39_FailedPopKeepsStack == [][PopFails => teco'.qstack = teco.qstack]_vars

====
